---------------------------- MODULE Spec2Model ----------------------------
(***************************************************************************)
(* A model of movie-pycker: the filename normaliser, the in-memory cache,  *)
(* the metadata-enrichment pipeline, the OMDb client, the search service   *)
(* and the server with its startup indexing task (src/app).                *)
(*                                                                         *)
(* Strings that the code takes apart (file names, noise tokens, the OMDb   *)
(* "Runtime" and "Genre" fields) are sequences of one-character strings.   *)
(* Python's None is the empty sequence and a present value x is <<x>>.     *)
(***************************************************************************)
EXTENDS Integers, Sequences, FiniteSets, TLC

VARIABLES
    \* InMemoryCache and the mappings around it (src/app/infrastructure/cache.py)
    heap,        \* the dict objects that exist: object id -> mapping
    store,       \* InMemoryCache._store: the id of the cache's own dict
    initial,     \* the mapping the caller passed to the constructor (an id)
    snapshot,    \* the mapping the last get_all() returned (<<>> or <<id>>)
    oplog,       \* the set and clear operations performed so far
    \* MetadataEnrichmentService.enrich_movies (src/app/services/metadata_enrichment.py)
    inv,         \* the enrich_movies invocations: their position and locals
    calls,       \* the source-client calls made so far, in order
    built,       \* the last _build_metadata call: its arguments and its result
    finished,    \* the invocations that returned: their input and their result
    started,     \* how many invocations were started
    \* _normalize_filename as a function under test
    file_path,    \* its path argument
    noise_tokens, \* the configured noise-token list
    title,        \* its result (<<>> until it ran, then <<title>>)
    npc,          \* "ready" before the call, "done" after it
    renormalized, \* the result of normalizing the title once more
    \* OMDbClient.fetch_movie_metadata as a function under test
    reply,        \* what the HTTP request comes to
    fetched,      \* the outcome of the call (<<>> until it ran)
    cpc,          \* where the call is: "ready", "awaiting", "done"
    \* SearchService.search as a function under test
    criteria,     \* its arguments: the records, the keywords and the sort string
    results,      \* its result (<<>> until it ran)
    \* the application: lifespan, the indexing task and the listing requests
    server,       \* app.state and the counters of the work done
    requests,     \* the listing requests: their position and locals
    \* Settings.get_noise_tokens as a function under test
    filename_noise_tokens, \* FILENAME_NOISE_TOKENS in the environment (<<>>: not set)
    got_noise_tokens       \* the outcome of the call (<<>> until it ran)

vars == <<heap, store, initial, snapshot, oplog,
          inv, calls, built, finished, started,
          file_path, noise_tokens, title, npc, renormalized,
          reply, fetched, cpc, criteria, results, server, requests,
          filename_noise_tokens, got_noise_tokens>>

cacheVars == <<heap, store, initial, snapshot, oplog>>
enrichVars == <<inv, calls, built, finished, started>>
normVars == <<file_path, noise_tokens, title, npc, renormalized>>
clientVars == <<reply, fetched, cpc>>
searchVars == <<criteria, results>>
serverVars == <<server, requests>>
configVars == <<filename_noise_tokens, got_noise_tokens>>

(***************************************************************************)
(* Python values                                                           *)
(***************************************************************************)
None == <<>>
Some(x) == <<x>>
Val(o) == o[1]

Range(s) == {s[i] : i \in 1..Len(s)}

SeqsUpTo(S, n) == UNION {[1..k -> S] : k \in 0..n}

RECURSIVE Concat(_)
Concat(ss) ==
    IF ss = <<>> THEN <<>> ELSE Head(ss) \o Concat(Tail(ss))

(***************************************************************************)
(* Characters: str.lower(), str.split() whitespace, the regex classes \w,  *)
(* \d and the boundary \b, for ASCII text.                                 *)
(***************************************************************************)
Lowers == <<"a","b","c","d","e","f","g","h","i","j","k","l","m",
            "n","o","p","q","r","s","t","u","v","w","x","y","z">>
Uppers == <<"A","B","C","D","E","F","G","H","I","J","K","L","M",
            "N","O","P","Q","R","S","T","U","V","W","X","Y","Z">>
LowerSet == Range(Lowers)
UpperSet == Range(Uppers)
DigitSeq == <<"0","1","2","3","4","5","6","7","8","9">>
DigitSet == Range(DigitSeq)
\* the ASCII characters str.split() and str.strip() take for whitespace: space,
\* tab, line feed, vertical tab, form feed, carriage return and the separators
\* FS, GS, RS, US (0x1c..0x1f)
Whitespace == {" ", "\t", "\n", "", "\f", "\r", "", "", "", ""}
LowerOf == [c \in UpperSet |-> Lowers[CHOOSE i \in 1..Len(Uppers) : Uppers[i] = c]]

Lower(c) == IF c \in UpperSet THEN LowerOf[c] ELSE c
LowerStr(s) == [i \in 1..Len(s) |-> Lower(s[i])]

IsWordChar(c) == c \in LowerSet \cup UpperSet \cup DigitSet \cup {"_"}

\* \b at the position before s[i] (i in 1..Len(s)+1)
WordAt(s, i) == i >= 1 /\ i <= Len(s) /\ IsWordChar(s[i])
Boundary(s, i) == WordAt(s, i - 1) # WordAt(s, i)

\* str.replace(c, " ") for every c of chars
ReplaceChars(s, chars) == [i \in 1..Len(s) |-> IF s[i] \in chars THEN " " ELSE s[i]]

\* str.split(): the maximal runs of non-whitespace characters
RECURSIVE SplitFrom(_, _, _)
SplitFrom(s, i, cur) ==
    IF i > Len(s) THEN (IF cur = <<>> THEN <<>> ELSE <<cur>>)
    ELSE IF s[i] \in Whitespace
         THEN (IF cur = <<>> THEN <<>> ELSE <<cur>>) \o SplitFrom(s, i + 1, <<>>)
         ELSE SplitFrom(s, i + 1, Append(cur, s[i]))
Split(s) == SplitFrom(s, 1, <<>>)

\* " ".join(words)
RECURSIVE Join(_)
Join(words) ==
    IF words = <<>> THEN <<>>
    ELSE IF Len(words) = 1 THEN words[1]
    ELSE words[1] \o <<" ">> \o Join(Tail(words))

\* str.strip()
RECURSIVE LStrip(_)
LStrip(s) == IF s # <<>> /\ Head(s) \in Whitespace THEN LStrip(Tail(s)) ELSE s
RECURSIVE RStrip(_)
RStrip(s) ==
    IF s # <<>> /\ s[Len(s)] \in Whitespace THEN RStrip(SubSeq(s, 1, Len(s) - 1)) ELSE s
Strip(s) == RStrip(LStrip(s))

(***************************************************************************)
(* pathlib: Path.name and Path.stem                                        *)
(***************************************************************************)
LastIndex(s, c) ==
    IF \E i \in 1..Len(s) : s[i] = c
    THEN CHOOSE i \in 1..Len(s) : s[i] = c /\ \A j \in (i + 1)..Len(s) : s[j] # c
    ELSE 0

\* the final component of the path
PathName(p) == IF p = <<".">> THEN <<>> ELSE SubSeq(p, LastIndex(p, "/") + 1, Len(p))

\* (faulty variant, for sensitivity of the properties) the name is cut before its last dot even when it has none
StemCutsAlways(p) ==
    LET name == PathName(p)
        i == LastIndex(name, ".")
    IN SubSeq(name, 1, i - 1)

\* the final component without its last suffix; a leading or a trailing dot
\* starts no suffix
Stem(p) ==
    LET name == PathName(p)
        i == LastIndex(name, ".")
    IN IF 1 < i /\ i < Len(name) THEN SubSeq(name, 1, i - 1) ELSE name

(***************************************************************************)
(* _normalize_filename                                                     *)
(***************************************************************************)
\* (faulty variant, for sensitivity of the properties) the dot is not replaced
SeparatorsWithoutDot == {"_", "(", ")", "[", "]"}
\* for char in "._()[]"
Separators == {".", "_", "(", ")", "[", "]"}

\* (faulty variant, for sensitivity of the properties) the year pattern without its word boundaries
YearAtAnywhere(s, i) ==
    /\ i + 3 <= Len(s)
    /\ <<s[i], s[i + 1]>> \in {<<"1", "9">>, <<"2", "0">>}
    /\ s[i + 2] \in DigitSet
    /\ s[i + 3] \in DigitSet

\* _YEAR_PATTERN = \b(19|20)\d{2}\b matches at s[i]
YearAt(s, i) ==
    /\ i + 3 <= Len(s)
    /\ Boundary(s, i)
    /\ <<s[i], s[i + 1]>> \in {<<"1", "9">>, <<"2", "0">>}
    /\ s[i + 2] \in DigitSet
    /\ s[i + 3] \in DigitSet
    /\ Boundary(s, i + 4)

\* _YEAR_PATTERN.sub("", s), scanning from s[i]
RECURSIVE YearSubFrom(_, _)
YearSubFrom(s, i) ==
    IF i > Len(s) THEN <<>>
    ELSE IF YearAt(s, i) THEN YearSubFrom(s, i + 4)
    ELSE <<s[i]>> \o YearSubFrom(s, i + 1)
YearSub(s) == YearSubFrom(s, 1)

\* re.compile(r"\b" + re.escape(t) + r"\b", re.IGNORECASE) matches at s[i]
PatternAt(t, s, i) ==
    /\ i + Len(t) - 1 <= Len(s)
    /\ Boundary(s, i)
    /\ \A j \in 1..Len(t) : Lower(s[i + j - 1]) = Lower(t[j])
    /\ Boundary(s, i + Len(t))

\* pattern.sub("", s), scanning from s[i]; t is not empty
RECURSIVE PatternSubFrom(_, _, _)
PatternSubFrom(t, s, i) ==
    IF i > Len(s) THEN <<>>
    ELSE IF PatternAt(t, s, i) THEN PatternSubFrom(t, s, i + Len(t))
    ELSE <<s[i]>> \o PatternSubFrom(t, s, i + 1)
PatternSub(t, s) == PatternSubFrom(t, s, 1)

\* for pattern in compound_patterns: name = pattern.sub("", name)
RECURSIVE ApplyPatterns(_, _)
ApplyPatterns(patterns, s) ==
    IF patterns = <<>> THEN s
    ELSE ApplyPatterns(Tail(patterns), PatternSub(Head(patterns), s))

IsCompound(t) == "-" \in Range(t) \/ " " \in Range(t)

\* MetadataEnrichmentService.__init__: the tokens with a hyphen or a space, in
\* their configured order, each standing for its compiled pattern
compound_patterns(tokens) == SelectSeq(tokens, IsCompound)

\* MetadataEnrichmentService.__init__: the other tokens, lowercased
single_tokens(tokens) == {LowerStr(t) : t \in {u \in Range(tokens) : ~IsCompound(u)}}

\* (faulty variant, for sensitivity of the properties) the hyphens become spaces before the compound patterns are applied
SplitNameHyphensFirst(path, patterns) ==
    LET name1 == ReplaceChars(Stem(path), Separators)
        name2 == YearSub(name1)
        name3 == ReplaceChars(name2, {"-"})
        name4 == ApplyPatterns(patterns, name3)
    IN Split(name4)

\* name after the separators, the years and the compound patterns are gone and
\* the hyphens are spaces, split into words (the list `words` of line 89)
SplitName(path, patterns) ==
    LET name1 == ReplaceChars(Stem(path), Separators)
        name2 == YearSub(name1)
        name3 == ApplyPatterns(patterns, name2)
        name4 == ReplaceChars(name3, {"-"})
    IN Split(name4)

\* (faulty variant, for sensitivity of the properties) a word is dropped when a token occurs anywhere inside it
KeepsWordSubstring(w, singles) == \A t \in singles : \A i \in 1..(Len(w) - Len(t) + 1) :
    SubSeq(LowerStr(w), i, i + Len(t) - 1) # t
\* w.lower() not in single_tokens
KeepsWord(w, singles) == LowerStr(w) \notin singles

FilterWords(words, singles) ==
    LET Keep(w) == KeepsWord(w, singles) IN SelectSeq(words, Keep)

_normalize_filename(path, patterns, singles) ==
    Strip(Join(FilterWords(SplitName(path, patterns), singles)))

\* the parts of the state a specification does not use
IdleEnrich ==
    /\ inv = <<>> /\ calls = <<>> /\ built = None /\ finished = <<>> /\ started = 0
IdleNormalizer ==
    /\ file_path = <<>> /\ noise_tokens = <<>> /\ title = None /\ npc = "unused"
    /\ renormalized = None
IdleClient == reply = None /\ fetched = None /\ cpc = "idle"
IdleSearch == criteria = None /\ results = None
IdleServer == server = None /\ requests = <<>>
IdleConfig == filename_noise_tokens = None /\ got_noise_tokens = None

(***************************************************************************)
(* Python dicts.  A dict is the list of its items in insertion order; two   *)
(* names may refer to the same dict object, so dicts live in a heap and    *)
(* are referred to by their id (the index in the heap).                    *)
(***************************************************************************)
EmptyDict == <<>>
DictKeys(d) == {d[i].key : i \in 1..Len(d)}
DictHas(d, k) == \E i \in 1..Len(d) : d[i].key = k
DictIndex(d, k) == CHOOSE i \in 1..Len(d) : d[i].key = k
\* d.get(k)
DictGet(d, k) == IF DictHas(d, k) THEN Some(d[DictIndex(d, k)].value) ELSE None
\* d[k] = v: a present key keeps its place, a new key goes last
DictSet(d, k, v) ==
    IF DictHas(d, k) THEN [d EXCEPT ![DictIndex(d, k)].value = v]
    ELSE Append(d, [key |-> k, value |-> v])
\* del d[k]
DictDel(d, k) == LET Other(item) == item.key # k IN SelectSeq(d, Other)
\* list(d.values())
DictValues(d) == [i \in 1..Len(d) |-> d[i].value]
\* the mapping a dict stands for: dict equality ignores the order
Mapping(d) == [k \in DictKeys(d) |-> Val(DictGet(d, k))]

\* dict(d): a new object with the same items
DictCopy(h, id) == [heap |-> Append(h, h[id]), ref |-> Len(h) + 1]
\* {}: a new empty object
DictNew(h) == [heap |-> Append(h, EmptyDict), ref |-> Len(h) + 1]
\* (faulty variant, for sensitivity of the properties) no copy: the same object under another name
DictShare(h, id) == [heap |-> h, ref |-> id]

(***************************************************************************)
(* InMemoryCache (src/app/infrastructure/cache.py)                         *)
(***************************************************************************)
\* __init__: self._store = dict(initial) if initial else {}
InMemoryCache_init(h, init) ==
    IF init # None /\ h[Val(init)] # EmptyDict THEN DictCopy(h, Val(init)) ELSE DictNew(h)

\* get: self._store.get(key)
get(h, st, key) == DictGet(h[st], key)

\* (faulty variant, for sensitivity of the properties) set keeps the value a key already has
set_if_absent(h, st, key, value) ==
    IF DictHas(h[st], key) THEN h ELSE [h EXCEPT ![st] = DictSet(@, key, value)]

\* set: self._store[key] = value
set(h, st, key, value) == [h EXCEPT ![st] = DictSet(@, key, value)]

\* exists: key in self._store
exists(h, st, key) == DictHas(h[st], key)

\* clear: self._store.clear(), in place
clear(h, st) == [h EXCEPT ![st] = EmptyDict]

\* (faulty variant, for sensitivity of the properties) get_all hands out the cache's own dict
get_all_shared(h, st) == DictShare(h, st)

\* get_all: dict(self._store)
get_all(h, st) == DictCopy(h, st)

(***************************************************************************)
(* Domain models (src/app/domain/movie.py).  A constructor call gives the  *)
(* record, or raises pydantic's ValidationError when a field constraint    *)
(* fails.                                                                  *)
(***************************************************************************)
Built(m) == [exc |-> "", value |-> Some(m)]
Raised(e) == [exc |-> e, value |-> None]
\* a call that returned v (None or a value) and raised nothing
Returned(v) == [exc |-> "", value |-> v]

\* (faulty variant, for sensitivity of the properties) MovieMetadata without the ge=0 constraint on duration_minutes
MovieMetadataUnvalidated(path, t, genres, plot, duration_minutes) ==
    Built([file_path |-> path, title |-> t, genres |-> genres, plot |-> plot,
           duration_minutes |-> duration_minutes])

\* MovieMetadata(file_path=..., title=..., genres=..., plot=..., duration_minutes=...)
MovieMetadata(path, t, genres, plot, duration_minutes) ==
    IF duration_minutes >= 0
    THEN Built([file_path |-> path, title |-> t, genres |-> genres, plot |-> plot,
                duration_minutes |-> duration_minutes])
    ELSE Raised("ValidationError")

\* MovieFile(file_path=..., filename=..., duration_minutes=...): the record, or
\* ValidationError when duration_minutes is negative (Field(ge=0))
MovieFile(path, filename, duration_minutes) ==
    IF duration_minutes < 0 THEN Raised("ValidationError")
    ELSE Built([file_path |-> path, filename |-> filename,
                duration_minutes |-> duration_minutes])

(***************************************************************************)
(* OMDbClient (src/app/infrastructure/omdb_client.py)                      *)
(***************************************************************************)
NotAvailable == <<"N", "/", "A">>

\* str.split(","): the pieces between the commas, empty ones included
RECURSIVE SplitOnFrom(_, _, _, _)
SplitOnFrom(s, c, i, cur) ==
    IF i > Len(s) THEN <<cur>>
    ELSE IF s[i] = c THEN <<cur>> \o SplitOnFrom(s, c, i + 1, <<>>)
    ELSE SplitOnFrom(s, c, i + 1, Append(cur, s[i]))
SplitOn(s, c) == SplitOnFrom(s, c, 1, <<>>)

\* _parse_genres
_parse_genres(value) ==
    IF value = None \/ Val(value) = <<>> \/ Val(value) = NotAvailable THEN <<>>
    ELSE LET pieces == SplitOn(Val(value), ",")
             stripped == [i \in 1..Len(pieces) |-> Strip(pieces[i])]
             NotEmpty(g) == g # <<>>
         IN SelectSeq(stripped, NotEmpty)

\* sys.get_int_max_str_digits(): the interpreter's default limit on the digits
\* of a decimal text that int() converts
MaxStrDigits == 4300

\* int(text) accepts an optional sign and digits, single underscores between
\* them, and raises ValueError also when the text has more than MaxStrDigits
\* digits (leading zeros count, the sign and the underscores do not)
IsIntLiteral(text) ==
    LET body == IF text # <<>> /\ text[1] \in {"+", "-"} THEN Tail(text) ELSE text
    IN /\ body # <<>>
       /\ \A i \in 1..Len(body) : body[i] \in DigitSet \cup {"_"}
       /\ body[1] # "_" /\ body[Len(body)] # "_"
       /\ \A i \in 1..(Len(body) - 1) : ~(body[i] = "_" /\ body[i + 1] = "_")
       /\ Cardinality({i \in 1..Len(body) : body[i] \in DigitSet}) <= MaxStrDigits
DigitValue(c) == (CHOOSE i \in 1..10 : DigitSeq[i] = c) - 1
RECURSIVE DigitsValue(_, _)
DigitsValue(body, acc) ==
    IF body = <<>> THEN acc
    ELSE IF Head(body) = "_" THEN DigitsValue(Tail(body), acc)
    ELSE DigitsValue(Tail(body), 10 * acc + DigitValue(Head(body)))
IntValue(text) ==
    IF text[1] = "-" THEN 0 - DigitsValue(Tail(text), 0)
    ELSE IF text[1] = "+" THEN DigitsValue(Tail(text), 0)
    ELSE DigitsValue(text, 0)

\* (faulty variant, for sensitivity of the properties) int() is given the whole field
_parse_runtime_minutes_whole(value) ==
    IF value = None \/ Val(value) = <<>> \/ Val(value) = NotAvailable THEN None
    ELSE IF IsIntLiteral(Val(value)) THEN Some(IntValue(Val(value)))
    ELSE None

\* _parse_runtime_minutes
_parse_runtime_minutes(value) ==
    IF value = None \/ Val(value) = <<>> \/ Val(value) = NotAvailable THEN None
    ELSE LET parts == Split(Val(value))
         IN IF parts = <<>> THEN None
            ELSE IF IsIntLiteral(parts[1]) THEN Some(IntValue(parts[1]))
            ELSE None

\* (faulty variant, for sensitivity of the properties) the except clause for httpx.HTTPStatusError is missing
fetch_movie_metadata_uncaught_status(response) ==
    IF response.kind = "RequestError" THEN Returned(None)
    ELSE IF response.kind = "HTTPStatusError" THEN Raised("HTTPStatusError")
    ELSE IF response.kind = "JSONDecodeError" THEN Raised("JSONDecodeError")
    ELSE LET data == response.data IN
         IF data.Response # "True" THEN Returned(None)
         ELSE Returned(Some([title |-> data.Title,
                             genres |-> _parse_genres(data.Genre),
                             plot |-> data.Plot,
                             runtime_minutes |-> _parse_runtime_minutes(data.Runtime)]))

\* fetch_movie_metadata, as a function of what the HTTP request comes to: a
\* transport failure (client.get raises httpx.RequestError), a non-2xx status
\* (raise_for_status raises httpx.HTTPStatusError), a 2xx body that is not JSON
\* (response.json() raises json.JSONDecodeError, which no except clause
\* catches) or a JSON object.  The outcome is the value returned, None for
\* absent, or the exception that leaves the call.
fetch_movie_metadata(response) ==
    IF response.kind = "RequestError" THEN Returned(None)
    ELSE IF response.kind = "HTTPStatusError" THEN Returned(None)
    ELSE IF response.kind = "JSONDecodeError" THEN Raised("JSONDecodeError")
    ELSE LET data == response.data IN
         IF data.Response # "True" THEN Returned(None)
         ELSE Returned(Some([title |-> data.Title,
                             genres |-> _parse_genres(data.Genre),
                             plot |-> data.Plot,
                             runtime_minutes |-> _parse_runtime_minutes(data.Runtime)]))

(***************************************************************************)
(* MetadataEnrichmentService (src/app/services/metadata_enrichment.py)     *)
(***************************************************************************)
\* (faulty variant, for sensitivity of the properties) the runtime replaces the technical duration whenever there is one
_build_metadata_prefers_runtime(movie, omdb_data) ==
    IF omdb_data = None
    THEN MovieMetadata(movie.file_path, None, <<>>, None, movie.duration_minutes)
    ELSE LET d == Val(omdb_data)
             duration_minutes == IF d.runtime_minutes # None
                                 THEN Val(d.runtime_minutes)
                                 ELSE movie.duration_minutes
         IN MovieMetadata(movie.file_path, d.title, d.genres, d.plot, duration_minutes)

\* _build_metadata
_build_metadata(movie, omdb_data) ==
    IF omdb_data = None
    THEN MovieMetadata(movie.file_path, None, <<>>, None, movie.duration_minutes)
    ELSE LET d == Val(omdb_data)
             duration_minutes == IF movie.duration_minutes = 0 /\ d.runtime_minutes # None
                                 THEN Val(d.runtime_minutes)
                                 ELSE movie.duration_minutes
         IN MovieMetadata(movie.file_path, d.title, d.genres, d.plot, duration_minutes)

\* the service load_library and _index_movies build: no noise tokens are passed
ServiceNoiseTokens == <<>>

\* cache_key = str(movie.file_path)
cache_key(movie) == movie.file_path

\* (faulty variant, for sensitivity of the properties) the cached record is never used
IsHitNever(cached) == FALSE
\* if cached:
IsHit(cached) == cached # None

\* (faulty variant, for sensitivity of the properties) a cache hit appends nothing
OnHitSkip(enriched, cached) == enriched
\* enriched.append(cached)
OnHit(enriched, cached) == Append(enriched, Val(cached))

\* an invocation before it runs
NewInvocation(movies) ==
    [pc |-> "running", movies |-> movies, i |-> 1, enriched |-> <<>>,
     cached |-> None, title_query |-> None]
NoInvocation == [NewInvocation(<<>>) EXCEPT !.pc = "idle"]

\* the loop of enrich_movies from movie r.i on, up to the await of the next
\* source-client call (pc "fetching") or to the return (pc "returned"), for a
\* service whose cache is the object st; h is the heap, which the loop only
\* reads
RECURSIVE RunLoopOn(_, _, _)
RunLoopOn(r, h, st) ==
    IF r.i > Len(r.movies) THEN [r EXCEPT !.pc = "returned"]
    ELSE LET movie == r.movies[r.i]
             cached == get(h, st, cache_key(movie))
         IN IF IsHit(cached)
            THEN RunLoopOn([r EXCEPT !.enriched = OnHit(@, cached),
                                     !.i = @ + 1,
                                     !.cached = cached], h, st)
            ELSE [r EXCEPT !.pc = "fetching",
                           !.cached = cached,
                           !.title_query =
                               Some(_normalize_filename(movie.file_path,
                                        compound_patterns(ServiceNoiseTokens),
                                        single_tokens(ServiceNoiseTokens)))]

\* the same for the service on the shared cache
RunLoop(r, h) == RunLoopOn(r, h, store)

\* what the run of an invocation up to its next await adds to the logs
Logged(p, r) ==
    /\ calls' = IF r.pc = "fetching"
                THEN Append(calls, [by |-> p,
                                    key |-> cache_key(r.movies[r.i]),
                                    title |-> Val(r.title_query)])
                ELSE calls
    /\ finished' = IF r.pc = "returned"
                   THEN Append(finished, [movies |-> r.movies, enriched |-> r.enriched])
                   ELSE finished

NumInvocations == 2
MaxStarted == 3
MaxMovies == 2

Procs == 1..NumInvocations

\* the scanned files: one whose name is only a year and whose duration could not
\* be extracted, one with a title and a duration
\* (a file object with a negative duration cannot be built)
MovieFileArguments ==
    {[path |-> <<"/", "m", "/", "1", "9", "9", "9", ".", "m", "k", "v">>, minutes |-> 0],
     [path |-> <<"/", "m", "/", "A", ".", "b", ".", "m", "k", "v">>, minutes |-> 95],
     [path |-> <<"/", "m", "/", "A", ".", "b", ".", "m", "k", "v">>, minutes |-> -10]}
MovieFiles ==
    {Val(m.value) : m \in {n \in {MovieFile(a.path, PathName(a.path), a.minutes) :
                                       a \in MovieFileArguments} : n.exc = ""}}
MovieLists == SeqsUpTo(MovieFiles, MaxMovies)

\* what a request to the source can come to
JsonResponse(found, runtime) ==
    [kind |-> "json",
     data |-> [Response |-> IF found THEN "True" ELSE "False",
               Title |-> IF found THEN Some("Short") ELSE None,
               Genre |-> IF found THEN Some(<<"D", ",", " ", "S", ",">>) ELSE None,
               Plot |-> IF found THEN Some("Test") ELSE None,
               Runtime |-> runtime]]
Runtimes == {None,
             Some(NotAvailable),
             Some(<<"8", "0", " ", "m", "i", "n">>),
             Some(<<"-", "5", " ", "m", "i", "n">>)}
Responses ==
    {[kind |-> "RequestError"], [kind |-> "HTTPStatusError"],
     [kind |-> "JSONDecodeError"], JsonResponse(FALSE, None)}
        \cup {JsonResponse(TRUE, rt) : rt \in Runtimes}

\* the process after startup: an empty shared cache, no invocation yet
Init ==
    /\ LET c == InMemoryCache_init(<<>>, None) IN
          /\ heap = c.heap
          /\ store = c.ref
    /\ initial = None
    /\ snapshot = None
    /\ oplog = <<[op |-> "init", data |-> EmptyDict]>>
    /\ inv = [p \in Procs |-> NoInvocation]
    /\ calls = <<>>
    /\ built = None
    /\ finished = <<>>
    /\ started = 0
    /\ IdleNormalizer
    /\ IdleClient /\ IdleSearch /\ IdleServer /\ IdleConfig

\* enrich_movies(movies) is called and runs up to its first await or its return
EnrichMoviesCall(p, movies) ==
    /\ started < MaxStarted
    /\ inv[p].pc # "fetching"
    /\ LET r == RunLoop(NewInvocation(movies), heap) IN
          /\ inv' = [inv EXCEPT ![p] = r]
          /\ Logged(p, r)
    /\ started' = started + 1
    /\ UNCHANGED built
    /\ UNCHANGED cacheVars
    /\ UNCHANGED normVars
    /\ UNCHANGED <<configVars, clientVars, searchVars, serverVars>>

\* the source-client call invocation p awaits completes: the record is built,
\* stored and appended, and the loop runs on to its next await or its return;
\* an exception that leaves the client, or a ValidationError raised while
\* building the record, leaves enrich_movies
FetchReturns(p, response) ==
    /\ inv[p].pc = "fetching"
    /\ LET r0 == inv[p]
           movie == r0.movies[r0.i]
           outcome == fetch_movie_metadata(response)
           omdb_data == outcome.value
           metadata == _build_metadata(movie, omdb_data)
       IN IF outcome.exc # ""
          THEN /\ inv' = [inv EXCEPT ![p].pc = "raised"]
               /\ UNCHANGED <<heap, oplog, calls, finished, built>>
          ELSE /\ built' = Some([movie |-> movie, omdb_data |-> omdb_data,
                                 result |-> metadata])
               /\ IF metadata.exc # ""
                  THEN /\ inv' = [inv EXCEPT ![p].pc = "raised"]
                       /\ UNCHANGED <<heap, oplog, calls, finished>>
                  ELSE LET value == Val(metadata.value)
                           h1 == set(heap, store, cache_key(movie), value)
                           r == RunLoop([r0 EXCEPT !.enriched = Append(@, value),
                                                   !.i = @ + 1], h1)
                       IN /\ heap' = h1
                          /\ oplog' = Append(oplog, [op |-> "set",
                                                     key |-> cache_key(movie),
                                                     value |-> value])
                          /\ inv' = [inv EXCEPT ![p] = r]
                          /\ Logged(p, r)
    /\ UNCHANGED <<store, initial, snapshot, started>>
    /\ UNCHANGED normVars
    /\ UNCHANGED <<configVars, clientVars, searchVars, serverVars>>

\* Invocations may overlap: every listing request that finds the cache empty
\* starts load_library on the shared cache (src/app/api/movies.py), and each
\* invocation is suspended while it awaits the source.
Next ==
    \/ \E p \in Procs, movies \in MovieLists : EnrichMoviesCall(p, movies)
    \/ \E p \in Procs, response \in Responses : FetchReturns(p, response)

Spec == Init /\ [][Next]_vars

\* Invocations that do not overlap: one is started only when no other is awaiting
NoneInFlight == \A q \in Procs : inv[q].pc # "fetching"
SeqNext ==
    \/ \E p \in Procs, movies \in MovieLists : NoneInFlight /\ EnrichMoviesCall(p, movies)
    \/ \E p \in Procs, response \in Responses : FetchReturns(p, response)

SeqSpec == Init /\ [][SeqNext]_vars

(***************************************************************************)
(* Indexer and PyMediaInfoExtractor (src/app/services/indexer.py,          *)
(* src/app/infrastructure/media_info.py).  A directory is the list of its  *)
(* entries in the order rglob yields them; an entry has its path, whether  *)
(* it is a regular file, and the duration in milliseconds MediaInfo finds  *)
(* in it (None when parsing fails or no track has a duration).             *)
(***************************************************************************)
SUPPORTED_EXTENSIONS == {<<".", "m", "p", "4">>, <<".", "m", "k", "v">>, <<".", "a", "v", "i">>}

\* Path.suffix: the last suffix of the final component, "" when there is none
Suffix(p) ==
    LET name == PathName(p)
        i == LastIndex(name, ".")
    IN IF 1 < i /\ i < Len(name) THEN SubSeq(name, i, Len(name)) ELSE <<>>

\* int(round(duration_ms / 60000)): to the nearest minute, a half to the even one
RoundMinutes(duration_ms) ==
    LET q == duration_ms \div 60000
        r == duration_ms % 60000
    IN IF r < 30000 THEN q
       ELSE IF r > 30000 THEN q + 1
       ELSE IF q % 2 = 0 THEN q ELSE q + 1

\* _normalize_minutes
_normalize_minutes(duration_ms) ==
    IF duration_ms <= 0 THEN 0
    ELSE IF RoundMinutes(duration_ms) > 0 THEN RoundMinutes(duration_ms) ELSE 0

\* PyMediaInfoExtractor.extract_duration_minutes
extract_duration_minutes(entry) ==
    IF entry.duration_ms = None THEN 0 ELSE _normalize_minutes(Val(entry.duration_ms))

\* path.is_file() and path.suffix.lower() in SUPPORTED_EXTENSIONS
IsVideoFile(entry) == entry.is_file /\ LowerStr(Suffix(entry.path)) \in SUPPORTED_EXTENSIONS

\* _iter_video_files
_iter_video_files(directory) == SelectSeq(directory.entries, IsVideoFile)

\* Indexer.scan_directory
scan_directory(directory) ==
    IF ~directory.exists THEN <<>>
    ELSE IF ~directory.is_dir THEN <<>>
    ELSE LET files == _iter_video_files(directory)
         IN [i \in 1..Len(files) |->
                Val(MovieFile(files[i].path, PathName(files[i].path),
                              extract_duration_minutes(files[i])).value)]

(***************************************************************************)
(* SearchService (src/app/services/search.py)                              *)
(***************************************************************************)
\* needle in hay, for strings
Contains(needle, hay) ==
    \E i \in 1..(Len(hay) - Len(needle) + 1) : SubSeq(hay, i, i + Len(needle) - 1) = needle

\* value or ""
OrEmpty(value) == IF value = None THEN <<>> ELSE Val(value)

\* (faulty variant, for sensitivity of the properties) the genres are left out of the haystack
_matches_keywords_without_genres(movie, keywords) ==
    LET haystack == LowerStr(Join(<<OrEmpty(movie.title), OrEmpty(movie.plot)>>))
    IN \E i \in 1..Len(keywords) : Contains(keywords[i], haystack)

\* _matches_keywords
_matches_keywords(movie, keywords) ==
    LET haystack == LowerStr(Join(<<OrEmpty(movie.title),
                                    OrEmpty(movie.plot),
                                    Join(movie.genres)>>))
    IN \E i \in 1..Len(keywords) : Contains(keywords[i], haystack)

\* SearchService._filter_movies
_filter_movies(movies, keywords) ==
    IF keywords = <<>> THEN movies
    ELSE LET NotBlank(kw) == Strip(kw) # <<>>
             kept == SelectSeq(keywords, NotBlank)
             normalized == [i \in 1..Len(kept) |-> Strip(LowerStr(kept[i]))]
             Matches(movie) == _matches_keywords(movie, normalized)
         IN IF normalized = <<>> THEN movies
            ELSE SelectSeq(movies, Matches)

DurationField == <<"d", "u", "r", "a", "t", "i", "o", "n">>

\* (faulty variant, for sensitivity of the properties) the leading "-" is dropped but the order stays ascending
_parse_sort_never_reverse(sort) ==
    LET descending == sort # <<>> /\ sort[1] = "-"
        field == IF descending THEN Tail(sort) ELSE sort
    IN IF field = DurationField THEN [key |-> "duration_minutes", reverse |-> FALSE]
       ELSE [key |-> "0", reverse |-> FALSE]

\* _parse_sort: the key function, by its name, and the reverse flag
_parse_sort(sort) ==
    LET descending == sort # <<>> /\ sort[1] = "-"
        field == IF descending THEN Tail(sort) ELSE sort
    IN IF field = DurationField THEN [key |-> "duration_minutes", reverse |-> descending]
       ELSE [key |-> "0", reverse |-> FALSE]

\* the key functions: lambda movie: movie.duration_minutes and lambda _movie: 0
KeyOf(key, movie) == IF key = "duration_minutes" THEN movie.duration_minutes ELSE 0

Reverse(seq) == [i \in 1..Len(seq) |-> seq[Len(seq) + 1 - i]]

\* x goes behind the elements of the sorted list whose key is not greater
RECURSIVE InsertBehindEqual(_, _, _)
InsertBehindEqual(x, seq, key) ==
    IF seq = <<>> THEN <<x>>
    ELSE IF KeyOf(key, Head(seq)) <= KeyOf(key, x)
         THEN <<Head(seq)>> \o InsertBehindEqual(x, Tail(seq), key)
         ELSE <<x>> \o seq
\* a stable sort in ascending order of the key
RECURSIVE StableSort(_, _)
StableSort(seq, key) ==
    IF seq = <<>> THEN <<>>
    ELSE InsertBehindEqual(seq[Len(seq)], StableSort(SubSeq(seq, 1, Len(seq) - 1), key), key)

\* sorted(movies, key=key, reverse=reverse): stable; with reverse the order is
\* descending and equal elements keep their order
sorted(movies, key, reverse) ==
    IF reverse THEN Reverse(StableSort(Reverse(movies), key))
    ELSE StableSort(movies, key)

\* SearchService._sort_movies
_sort_movies(movies, sort) ==
    LET parsed == _parse_sort(sort) IN sorted(movies, parsed.key, parsed.reverse)

\* SearchService.search
search(movies, keywords, sort) == _sort_movies(_filter_movies(movies, keywords), sort)

(***************************************************************************)
(* The search service on its own: records, keywords and a sort string are  *)
(* drawn, then search is called once.                                      *)
(***************************************************************************)
MaxSearchMovies == 3
MaxKeywords == 2

SearchMovies ==
    {[file_path |-> <<"/", "m", "/", "1">>, title |-> Some(<<"a", "B">>),
      genres |-> <<<<"C">>>>, plot |-> Some(<<"A">>), duration_minutes |-> 100],
     [file_path |-> <<"/", "m", "/", "2">>, title |-> None,
      genres |-> <<<<"B">>, <<"D">>>>, plot |-> None, duration_minutes |-> 120],
     [file_path |-> <<"/", "m", "/", "3">>, title |-> Some(<<"e">>),
      genres |-> <<<<"a">>, <<"c">>>>, plot |-> Some(<<"A">>), duration_minutes |-> 100]}
KeywordPool == {<<>>, <<" ", "\f">>, <<"a">>, <<" ", "B", " ">>, <<"b", " ", "a">>, <<"d">>}
SortStrings ==
    {DurationField, <<"-">> \o DurationField, <<"-", "-">> \o DurationField,
     <<"t", "i", "t", "l", "e">>, <<"-", "t", "i", "t", "l", "e">>, <<>>, <<"-">>}

SearchInit ==
    /\ criteria \in [movies : SeqsUpTo(SearchMovies, MaxSearchMovies),
                      keywords : SeqsUpTo(KeywordPool, MaxKeywords),
                      sort : SortStrings]
    /\ results = None
    /\ heap = <<>> /\ store = 0 /\ initial = None /\ snapshot = None /\ oplog = <<>>
    /\ IdleEnrich
    /\ IdleNormalizer
    /\ IdleClient /\ IdleServer /\ IdleConfig

\* results = search_service.search(movies, keywords=keywords, sort=sort)
SearchCall ==
    /\ results = None
    /\ results' = Some(search(criteria.movies, criteria.keywords, criteria.sort))
    /\ UNCHANGED criteria
    /\ UNCHANGED cacheVars
    /\ UNCHANGED enrichVars
    /\ UNCHANGED normVars
    /\ UNCHANGED <<configVars, clientVars, serverVars>>

SearchNext == SearchCall

SearchSpec == SearchInit /\ [][SearchNext]_vars

(***************************************************************************)
(* The source client on its own: what the HTTP request comes to is drawn,  *)
(* then fetch_movie_metadata is called once.                               *)
(***************************************************************************)
MaxRuntimePieces == 3

RuntimePieces == {<<"1", "2", "7">>, <<" ">>, <<"\t">>, <<"\f">>, <<"m", "i", "n">>,
                  NotAvailable, <<"-">>, <<"+">>, <<"x">>}
\* Python integers have no upper limit; the fields are kept short enough for
\* their values to stay within the integers of the checker
MaxRuntimeChars == 9
RuntimeFields ==
    {None} \cup {Some(f) : f \in {g \in {Concat(ps) : ps \in SeqsUpTo(RuntimePieces, MaxRuntimePieces)} :
                                     Len(g) <= MaxRuntimeChars}}
ClientResponses ==
    {[kind |-> "RequestError"], [kind |-> "HTTPStatusError"],
     [kind |-> "JSONDecodeError"], JsonResponse(FALSE, None)}
        \cup {JsonResponse(TRUE, rt) : rt \in RuntimeFields}

\* a client on which fetch_movie_metadata has not been called yet
ClientInit ==
    /\ reply = None
    /\ fetched = None
    /\ cpc = "ready"
    /\ heap = <<>> /\ store = 0 /\ initial = None /\ snapshot = None /\ oplog = <<>>
    /\ IdleEnrich
    /\ IdleNormalizer
    /\ IdleSearch /\ IdleServer /\ IdleConfig

\* fetch_movie_metadata(title) up to its await: the request is sent and the
\* coroutine is suspended in `await client.get(...)`; other tasks run meanwhile
FetchCall ==
    /\ cpc = "ready"
    /\ cpc' = "awaiting"
    /\ UNCHANGED <<reply, fetched>>
    /\ UNCHANGED cacheVars
    /\ UNCHANGED enrichVars
    /\ UNCHANGED normVars
    /\ UNCHANGED <<configVars, searchVars, serverVars>>

\* the request comes to an end and fetch_movie_metadata runs on to its return,
\* or to the exception that leaves it
GetCompletes(response) ==
    /\ cpc = "awaiting"
    /\ reply' = response
    /\ fetched' = Some(fetch_movie_metadata(response))
    /\ cpc' = "done"
    /\ UNCHANGED cacheVars
    /\ UNCHANGED enrichVars
    /\ UNCHANGED normVars
    /\ UNCHANGED <<configVars, searchVars, serverVars>>

ClientNext ==
    \/ FetchCall
    \/ \E response \in ClientResponses : GetCompletes(response)

ClientSpec == ClientInit /\ [][ClientNext]_vars

(***************************************************************************)
(* The application (src/app/main.py, src/app/api/movies.py,                *)
(* src/app/services/library_loader.py): lifespan sets up app.state and may *)
(* create the indexing task; listing requests are served while the task    *)
(* runs.  The coroutines run on one event loop, so a step of theirs is the *)
(* code between two awaits; the dependency get_cache is a plain function,  *)
(* which the framework runs in a worker thread of its pool while the       *)
(* request's task is suspended, so that the threads of two requests can    *)
(* interleave between its read and its write of app.state.cache.  The      *)
(* files of the directory do not change while the server runs.  Task 0 is  *)
(* the indexing task and task r is the load_library call of request r.     *)
(***************************************************************************)
MaxRequests == 2

Requests == 1..MaxRequests
Tasks == 0..MaxRequests

\* the directory of the settings: a file whose name is only a year and whose
\* duration cannot be read, a text file, a video with an upper-case suffix, and
\* a sub-directory named like a video
Library ==
    [exists |-> TRUE, is_dir |-> TRUE,
     entries |-> <<[path |-> <<"/", "m", "/", "1", "9", "9", "9", ".", "m", "k", "v">>,
                    is_file |-> TRUE, duration_ms |-> None],
                   [path |-> <<"/", "m", "/", "n", ".", "t", "x", "t">>,
                    is_file |-> TRUE, duration_ms |-> None],
                   [path |-> <<"/", "m", "/", "A", ".", "b", ".", "M", "K", "V">>,
                    is_file |-> TRUE, duration_ms |-> Some(5730000)],
                   [path |-> <<"/", "m", "/", "s", ".", "a", "v", "i">>,
                    is_file |-> FALSE, duration_ms |-> None]>>]
EmptyLibrary == [exists |-> TRUE, is_dir |-> TRUE, entries |-> <<>>]
Libraries == {Library, EmptyLibrary}
\* a path with nothing at it, and the path of a file
MissingDirectory == [exists |-> FALSE, is_dir |-> FALSE, entries |-> <<>>]
NotADirectory == [exists |-> TRUE, is_dir |-> FALSE, entries |-> <<>>]
ApiKeys == {<<"k">>, <<>>, <<" ", "\f">>}

\* what the environment and the .env file can give for the fields of Settings
SettingsValues ==
    [movie_directory : Libraries \cup {MissingDirectory, NotADirectory},
     omdb_api_key : ApiKeys,
     auto_index_on_startup : BOOLEAN, enable_cache : BOOLEAN]

\* (faulty variant, for sensitivity of the properties) any path that exists passes
validate_movie_directory_exists_only(v) ==
    IF ~v.exists THEN Raised("ValueError") ELSE Returned(v)
\* Settings.validate_movie_directory
validate_movie_directory(v) ==
    IF ~v.exists THEN Raised("ValueError")
    ELSE IF ~v.is_dir THEN Raised("ValueError")
    ELSE Returned(v)

\* Settings.validate_omdb_api_key
validate_omdb_api_key(v) ==
    IF v = <<>> \/ Strip(v) = <<>> THEN Raised("ValueError") ELSE Returned(Strip(v))

\* Settings(): every field is validated, and a failed validation makes the
\* construction raise pydantic's ValidationError (a ValueError)
Settings(values) ==
    LET directory == validate_movie_directory(values.movie_directory)
        key == validate_omdb_api_key(values.omdb_api_key)
    IN IF directory.exc # "" \/ key.exc # "" THEN Raised("ValidationError")
       ELSE Returned([values EXCEPT !.movie_directory = directory.value,
                                    !.omdb_api_key = key.value])

\* get_settings() for the values the process runs with
get_settings(values) == Settings(values)

ServerSorts == {DurationField, <<"-">> \o DurationField}
ServerResponses ==
    {[kind |-> "RequestError"],
     JsonResponse(TRUE, Some(<<"8", "0", " ", "m", "i", "n">>)),
     JsonResponse(TRUE, Some(<<"-", "5", " ", "m", "i", "n">>))}

\* a request before it arrives: cache is what get_cache read and then returns
\* (0 for None), temp_cache the cache list_movies makes when caching is disabled
\* (0 as long as there is none)
NoRequest ==
    [pc |-> "idle", sort |-> <<>>, awaited |-> 0, cache |-> 0, temp_cache |-> 0,
     results |-> None]

\* index_task.done(): the task returned, was left by an exception or was
\* cancelled
TaskDone(task) == task \in {Some("done"), Some("raised"), Some("cancelled")}

\* (faulty variant, for sensitivity of the properties) the task is created whatever the setting says
StartsIndexTaskAlways(settings) == TRUE
\* lifespan: if settings.auto_index_on_startup
StartsIndexTask(settings) == settings.auto_index_on_startup

\* (faulty variant, for sensitivity of the properties) the request awaits the task also when it is done
ShouldAwaitIndexTaskAlways(task) == task # None
\* (faulty variant, for sensitivity of the properties) the request never awaits the task
ShouldAwaitIndexTaskNever(task) == FALSE
\* list_movies: if index_task is not None and not index_task.done()
ShouldAwaitIndexTask(task) == task # None /\ ~TaskDone(task)

\* movies = list(cache.get_all().values()), for the cache st of heap h
MoviesOf(h, st) == LET all == get_all(h, st) IN DictValues(all.heap[all.ref])
\* the same for the shared cache as it is now
CachedMovies == MoviesOf(heap, store)

\* (faulty variant, for sensitivity of the properties) the cache is taken for empty whatever it holds
NotMoviesAlways(movies) == TRUE
\* list_movies: if not movies
NotMovies(movies) == movies = <<>>

\* results = search_service.search(movies, keywords=[], sort=sort)
\* return SearchResponse(results=results)
Responds(req, movies) ==
    [req EXCEPT !.pc = "responded", !.results = Some(search(movies, <<>>, req.sort))]

\* the source-client calls made so far, those of one task in the order the task
\* made them and the tasks one after the other
CallsWith(log, call) ==
    SelectSeq(log, LAMBDA c : c.by <= call.by) \o <<call>> \o
    SelectSeq(log, LAMBDA c : c.by > call.by)

\* omdb_client.fetch_movie_metadata(title_query) is called by task t
ServerLogged(t, r) ==
    calls' = IF r.pc = "fetching"
             THEN CallsWith(calls, [by |-> t,
                                    key |-> cache_key(r.movies[r.i]),
                                    title |-> Val(r.title_query)])
             ELSE calls

\* load_library and _index_movies up to their first await: the directory is
\* scanned, the duration of every video is extracted, and enrich_movies runs up
\* to its first source-client call or to its return
LoadLibrary(settings, h, st) ==
    RunLoopOn(NewInvocation(scan_directory(settings.movie_directory)), h, st)
\* the scan and the extractions of such a call, counted
Scanned(srv, settings) ==
    [srv EXCEPT !.scans = @ + 1,
                   !.extractions = @ + Len(_iter_video_files(settings.movie_directory))]

\* a cache the embedding program has filled and put in place of the
\* application's own before the first request (as src/tests/test_api_movies.py
\* does for get_cache): two records, of 100 and of 120 minutes
ProvidedCache ==
    LET a == <<"/", "m", "o", "v", "i", "e", "s", "/", "a", ".", "m", "p", "4">>
        b == <<"/", "m", "o", "v", "i", "e", "s", "/", "b", ".", "m", "p", "4">>
        c == InMemoryCache_init(<<>>, None)
        h1 == set(c.heap, c.ref, a, Val(MovieMetadata(a, Some("A"), <<>>, None, 100).value))
    IN [heap |-> set(h1, c.ref, b, Val(MovieMetadata(b, Some("B"), <<>>, None, 120).value)),
        ref |-> c.ref]

\* the process before lifespan runs and before any request: the application has
\* no cache of its own yet, or the embedding program has provided one
ServerInit ==
    /\ \E settings \in SettingsValues :
          server = [phase |-> "boot", settings |-> settings, app_settings |-> None,
                    index_task |-> None, scans |-> 0, extractions |-> 0]
    /\ requests = [r \in Requests |-> NoRequest]
    /\ \/ heap = <<>> /\ store = 0
       \/ heap = ProvidedCache.heap /\ store = ProvidedCache.ref
    /\ initial = None /\ snapshot = None /\ oplog = <<>>
    /\ inv = [t \in Tasks |-> NoInvocation]
    /\ calls = <<>>
    /\ built = None
    /\ finished = <<>>
    /\ started = 0
    /\ IdleNormalizer
    /\ IdleClient /\ IdleSearch /\ IdleConfig

\* lifespan up to its yield: the settings are read, the shared cache is made and
\* the indexing task is created when the settings ask for it
Lifespan ==
    /\ server.phase = "boot"
    \* the host runs lifespan before it hands over the first request, or never
    /\ \A r \in Requests : requests[r].pc = "idle"
    /\ LET loaded == get_settings(server.settings)
           settings == loaded.value
           cache == InMemoryCache_init(heap, None)
       IN IF loaded.exc # ""
          THEN \* the exception leaves lifespan: the application does not start
               /\ server' = [server EXCEPT !.phase = "failed"]
               /\ UNCHANGED <<heap, store>>
          ELSE /\ heap' = cache.heap
               /\ store' = cache.ref
               /\ server' = [server EXCEPT !.phase = "serving",
                                           !.app_settings = Some(settings),
                                           !.index_task = IF StartsIndexTask(settings)
                                                          THEN Some("created")
                                                          ELSE None]
    /\ UNCHANGED <<initial, snapshot, oplog, requests>>
    /\ UNCHANGED enrichVars
    /\ UNCHANGED normVars
    /\ UNCHANGED <<configVars, clientVars, searchVars>>

\* the indexing task gets to run: _index_movies up to its first await
IndexTaskCanStart == server.phase = "serving" /\ server.index_task = Some("created")
IndexTaskStarts ==
    /\ IndexTaskCanStart
    /\ LET settings == Val(server.app_settings)
           run == LoadLibrary(settings, heap, store)
       IN /\ inv' = [inv EXCEPT ![0] = run]
          /\ ServerLogged(0, run)
          /\ server' = [Scanned(server, settings) EXCEPT
                            !.index_task = IF run.pc = "returned"
                                           THEN Some("done") ELSE Some("running")]
    /\ UNCHANGED <<built, finished, started, requests>>
    /\ UNCHANGED cacheVars
    /\ UNCHANGED normVars
    /\ UNCHANGED <<configVars, clientVars, searchVars>>

\* request r calls load_library(settings, cache) for the cache st of heap h and
\* runs up to the first await of enrich_movies, or up to its response when
\* enrich_movies returns at once
StartsLoad(r, req, srv, h, st) ==
    LET settings == Val(srv.app_settings)
        run == LoadLibrary(settings, h, st)
    IN
    /\ inv' = [inv EXCEPT ![r] = run]
    /\ ServerLogged(r, run)
    /\ heap' = h
    /\ server' = Scanned(srv, settings)
    /\ requests' = [requests EXCEPT ![r] =
                        IF run.pc = "returned"
                        THEN Responds(req, run.enriched)
                        ELSE [req EXCEPT !.pc = "loading"]]

\* GET /movies arrives and its dependencies are resolved: get_cache is started
\* in a worker thread, which reads app.state.cache (line 20).  A host that
\* does not run lifespan (phase "boot") hands requests over as well.
GetCacheCalled(r, sort) ==
    /\ server.phase \in {"boot", "serving"}
    /\ requests[r].pc = "idle"
    /\ \A q \in Requests : q < r => requests[q].pc # "idle"
    /\ requests' = [requests EXCEPT ![r] =
                        [@ EXCEPT !.pc = "get_cache", !.sort = sort, !.cache = store]]
    /\ UNCHANGED server
    /\ UNCHANGED cacheVars
    /\ UNCHANGED enrichVars
    /\ UNCHANGED normVars
    /\ UNCHANGED <<configVars, clientVars, searchVars>>

\* the worker thread runs get_cache to its end (lines 21-24): when it read
\* None it makes a cache and sets app.state.cache to it, whatever another
\* thread has set there since the read; the task of request r is woken with
\* the cache returned
GetCacheReturns(r) ==
    /\ requests[r].pc = "get_cache"
    /\ LET made == InMemoryCache_init(heap, None)
       IN IF requests[r].cache = 0
          THEN /\ heap' = made.heap
               /\ store' = made.ref
               /\ requests' = [requests EXCEPT ![r] =
                                   [@ EXCEPT !.pc = "resolved", !.cache = made.ref]]
          ELSE /\ requests' = [requests EXCEPT ![r].pc = "resolved"]
               /\ UNCHANGED <<heap, store>>
    /\ UNCHANGED <<initial, snapshot, oplog, server>>
    /\ UNCHANGED enrichVars
    /\ UNCHANGED normVars
    /\ UNCHANGED <<configVars, clientVars, searchVars>>

\* the task of request r runs again: list_movies is called with the cache that
\* get_cache returned and runs up to its first await or to its response.
\* Without lifespan list_movies reads the settings, and a ValidationError of
\* get_settings() ends the request.
ListMovies(r) ==
    /\ requests[r].pc = "resolved"
    /\ LET req == requests[r]
           movies == MoviesOf(heap, req.cache)
           loaded == get_settings(server.settings)
           settings == IF server.app_settings = None
                       THEN loaded.value
                       ELSE Val(server.app_settings)
           \* request.app.state.settings = settings, when it was not set
           srv == [server EXCEPT !.app_settings = Some(settings)]
       IN IF server.app_settings = None /\ movies # <<>>
          THEN /\ requests' = [requests EXCEPT ![r] = Responds(req, movies)]
               /\ UNCHANGED <<heap, server, inv, calls>>
          ELSE IF server.app_settings = None /\ loaded.exc # ""
          THEN /\ requests' = [requests EXCEPT ![r].pc = "failed"]
               /\ UNCHANGED <<heap, server, inv, calls>>
          ELSE IF ~settings.enable_cache
          THEN LET temp_cache == InMemoryCache_init(heap, None)
               IN StartsLoad(r, [req EXCEPT !.temp_cache = temp_cache.ref], srv,
                             temp_cache.heap, temp_cache.ref)
          ELSE IF NotMovies(movies) /\ ShouldAwaitIndexTask(server.index_task)
          THEN /\ requests' = [requests EXCEPT ![r] =
                                   [req EXCEPT !.pc = "awaiting_index",
                                               !.awaited = @ + 1]]
               /\ server' = srv
               /\ UNCHANGED <<heap, inv, calls>>
          ELSE IF NotMovies(movies)
          THEN StartsLoad(r, req, srv, heap, req.cache)
          ELSE /\ requests' = [requests EXCEPT ![r] = Responds(req, movies)]
               /\ server' = srv
               /\ UNCHANGED <<heap, inv, calls>>
    /\ UNCHANGED <<store, initial, snapshot, oplog, built, finished, started>>
    /\ UNCHANGED normVars
    /\ UNCHANGED <<configVars, clientVars, searchVars>>

\* the indexing task request r awaits is done: the await returns, or raises what
\* the task raised, and list_movies runs on to its next await or its response
AwaitCanReturn(r) == requests[r].pc = "awaiting_index" /\ TaskDone(server.index_task)
IndexTaskAwaited(r) ==
    /\ AwaitCanReturn(r)
    /\ LET req == requests[r]
           movies == MoviesOf(heap, req.cache)
       IN IF server.index_task \in {Some("raised"), Some("cancelled")}
          THEN /\ requests' = [requests EXCEPT ![r].pc = "failed"]
               /\ UNCHANGED <<heap, server, inv, calls>>
          ELSE IF movies = <<>>
          THEN StartsLoad(r, req, server, heap, req.cache)
          ELSE /\ requests' = [requests EXCEPT ![r] = Responds(req, movies)]
               /\ UNCHANGED <<heap, server, inv, calls>>
    /\ UNCHANGED <<store, initial, snapshot, oplog, built, finished, started>>
    /\ UNCHANGED normVars
    /\ UNCHANGED <<configVars, clientVars, searchVars>>

\* the cache of the service of task t: lifespan's cache for the indexing task;
\* for a request its temp_cache when it made one, else the cache of get_cache
CacheOf(t) ==
    IF t = 0 THEN store
    ELSE IF requests[t].temp_cache # 0 THEN requests[t].temp_cache
    ELSE requests[t].cache

\* the source-client call task t awaits completes: enrich_movies builds and
\* stores the record and runs on to its next call or its return, and then the
\* caller runs on: the indexing task ends, or the request responds; an
\* exception that leaves enrich_movies ends the task, or the request, with it
\* (a task that was cancelled gets CancelledError at its await, never the result)
FetchCanReturn(t) ==
    inv[t].pc = "fetching" /\ ~(t = 0 /\ server.index_task = Some("cancelling"))
TaskFetchReturns(t, response) ==
    /\ FetchCanReturn(t)
    /\ LET r0 == inv[t]
           movie == r0.movies[r0.i]
           outcome == fetch_movie_metadata(response)
           metadata == _build_metadata(movie, outcome.value)
           raises == outcome.exc # "" \/ metadata.exc # ""
           h1 == IF raises THEN heap
                 ELSE set(heap, CacheOf(t), cache_key(movie), Val(metadata.value))
           run == IF raises THEN [r0 EXCEPT !.pc = "raised"]
                  ELSE RunLoopOn([r0 EXCEPT !.enriched = Append(@, Val(metadata.value)),
                                            !.i = @ + 1], h1, CacheOf(t))
       IN /\ heap' = h1
          /\ inv' = [inv EXCEPT ![t] = run]
          /\ ServerLogged(t, run)
          /\ server' = IF t # 0 \/ run.pc = "fetching" THEN server
                       ELSE [server EXCEPT !.index_task =
                                IF run.pc = "raised" THEN Some("raised") ELSE Some("done")]
          /\ requests' = IF t = 0 \/ run.pc = "fetching" THEN requests
                         ELSE IF run.pc = "raised"
                         THEN [requests EXCEPT ![t].pc = "failed"]
                         ELSE [requests EXCEPT ![t] = Responds(@, run.enriched)]
    /\ UNCHANGED <<store, initial, snapshot, oplog, built, finished, started>>
    /\ UNCHANGED normVars
    /\ UNCHANGED <<configVars, clientVars, searchVars>>

\* (faulty variant, for sensitivity of the properties) the task is left to itself
MustCancelNever(task) == FALSE
\* lifespan, after the yield: if index_task and not index_task.done()
MustCancel(task) == task # None /\ ~TaskDone(task)

\* lifespan after its yield, up to `await index_task`: the host runs it when it
\* shuts down, after the requests in flight have been answered; an unfinished
\* indexing task is cancelled and lifespan waits for it
ShutdownBegins ==
    /\ server.phase = "serving"
    /\ \A r \in Requests : requests[r].pc \in {"idle", "responded", "failed"}
    /\ server' = IF MustCancel(server.index_task)
                 THEN [server EXCEPT !.phase = "stopping",
                                     !.index_task = Some("cancelling")]
                 ELSE [server EXCEPT !.phase = "stopped"]
    /\ UNCHANGED requests
    /\ UNCHANGED cacheVars
    /\ UNCHANGED enrichVars
    /\ UNCHANGED normVars
    /\ UNCHANGED <<configVars, clientVars, searchVars>>

\* (faulty variant, for sensitivity of the properties) the record of the file in flight is
\* written with what is known when the cancellation arrives
AbandonedWithRecord(r, h, st) ==
    IF r.pc = "fetching"
    THEN [run |-> [r EXCEPT !.pc = "cancelled"],
          heap |-> set(h, st, cache_key(r.movies[r.i]),
                       Val(_build_metadata(r.movies[r.i], None).value))]
    ELSE [run |-> r, heap |-> h]
\* enrich_movies gets CancelledError at `await fetch_movie_metadata(...)`:
\* nothing catches it, so the loop is left before _build_metadata and
\* cache.set; a task that had not started never runs its coroutine
Abandoned(r, h, st) ==
    IF r.pc = "fetching"
    THEN [run |-> [r EXCEPT !.pc = "cancelled"], heap |-> h]
    ELSE [run |-> r, heap |-> h]

\* the cancelled indexing task gets to run: CancelledError ends it
IndexTaskCanBeCancelled == server.index_task = Some("cancelling")
IndexTaskCancelled ==
    /\ IndexTaskCanBeCancelled
    /\ LET left == Abandoned(inv[0], heap, store)
       IN /\ inv' = [inv EXCEPT ![0] = left.run]
          /\ heap' = left.heap
    /\ server' = [server EXCEPT !.index_task = Some("cancelled")]
    /\ UNCHANGED <<store, initial, snapshot, oplog, calls, built, finished, started>>
    /\ UNCHANGED requests
    /\ UNCHANGED normVars
    /\ UNCHANGED <<configVars, clientVars, searchVars>>

\* `await index_task` in lifespan ends with the task's CancelledError, which is
\* suppressed: lifespan returns and the shutdown is complete
ShutdownCanComplete ==
    server.phase = "stopping" /\ TaskDone(server.index_task)
ShutdownCompletes ==
    /\ ShutdownCanComplete
    /\ server' = [server EXCEPT !.phase = "stopped"]
    /\ UNCHANGED requests
    /\ UNCHANGED cacheVars
    /\ UNCHANGED enrichVars
    /\ UNCHANGED normVars
    /\ UNCHANGED <<configVars, clientVars, searchVars>>

ServerNext ==
    \/ Lifespan
    \/ IndexTaskStarts
    \/ \E r \in Requests, sort \in ServerSorts : GetCacheCalled(r, sort)
    \/ \E r \in Requests : GetCacheReturns(r)
    \/ \E r \in Requests : ListMovies(r)
    \/ \E r \in Requests : IndexTaskAwaited(r)
    \/ \E t \in Tasks, response \in ServerResponses : TaskFetchReturns(t, response)
    \/ ShutdownBegins
    \/ IndexTaskCancelled
    \/ ShutdownCompletes

ServerSpec == ServerInit /\ [][ServerNext]_vars

\* The event loop runs every task that can run, the pool runs every worker
\* thread to its end, and every source-client call comes to an end; requests
\* arrive, and the host shuts down, when they do.
\* Each step below changes the state whenever its condition holds
\* (IndexTaskCanStart, the request's position in get_cache or before
\* list_movies, AwaitCanReturn, FetchCanReturn), so the condition is the
\* step's enabling condition and the conjuncts written with it are the weak
\* fairness of the step, WF_vars(step).
ServerFairness ==
    /\ WF_vars(Lifespan)
    /\ []<>(~IndexTaskCanStart) \/ []<><<IndexTaskStarts>>_vars
    /\ \A r \in Requests :
          []<>(requests[r].pc # "get_cache") \/ []<><<GetCacheReturns(r)>>_vars
    /\ \A r \in Requests :
          []<>(requests[r].pc # "resolved") \/ []<><<ListMovies(r)>>_vars
    /\ \A r \in Requests :
          []<>(~AwaitCanReturn(r)) \/ []<><<IndexTaskAwaited(r)>>_vars
    /\ \A t \in Tasks :
          []<>(~FetchCanReturn(t)) \/
          []<><<\E response \in ServerResponses : TaskFetchReturns(t, response)>>_vars
    /\ WF_vars(IndexTaskCancelled)
    /\ WF_vars(ShutdownCompletes)

ServerLiveSpec == ServerInit /\ [][ServerNext]_vars /\ ServerFairness

\* a listing request has ended: list_movies returned its SearchResponse, or an
\* exception left it and the server answered with its error response
Ended(r) == requests[r].pc \in {"responded", "failed"}

\* request r starts to await the indexing task in this step
StartsAwaiting(r) == requests'[r].awaited > requests[r].awaited

\* C17: a listing request awaits the background indexing task at most once, and
\* only when the cache is empty and the task exists and is not yet done; and,
\* the task and every source-client call coming to an end, every listing request
\* that has arrived eventually ends: with the listing, or, only when the
\* indexing task it awaited or its own load raised, or when lifespan has not
\* run and the settings cannot be loaded, with the error response.
C17_AwaitsOnceAndResponds ==
    /\ [][\A r \in Requests :
              StartsAwaiting(r) =>
                  /\ requests[r].awaited = 0
                  /\ CachedMovies = <<>>
                  /\ server.index_task # None
                  /\ ~TaskDone(server.index_task)]_vars
    /\ [](\A r \in Requests :
              requests[r].pc = "failed" =>
                  \/ inv[r].pc = "raised"
                  \/ requests[r].awaited = 1 /\ server.index_task = Some("raised")
                  \/ server.app_settings = None /\ get_settings(server.settings).exc # "")
    /\ \A r \in Requests : (requests[r].pc # "idle") ~> Ended(r)

\* a request that awaited the indexing task and then returned the records the
\* task had stored
C17_Witness ==
    \E r \in Requests :
        /\ requests[r].awaited = 1
        /\ requests[r].pc = "responded"
        /\ Len(Val(requests[r].results)) = 2

\* the server runs with auto-index and caching enabled
AutoIndexWithCache ==
    server.settings.auto_index_on_startup /\ server.settings.enable_cache

\* the files of the directory that scan_directory reports
SupportedFiles == _iter_video_files(server.settings.movie_directory)

\* request r arrives in this step
Arrives(r) == requests[r].pc = "idle" /\ requests'[r].pc # "idle"

\* list_movies is called for request r in this step
Lists(r) == requests[r].pc = "resolved" /\ requests'[r].pc # "resolved"

\* C18: with auto-index and caching enabled and source-client calls that come
\* to an end, the indexing run started at startup eventually completes, and a
\* listing request whose list_movies call runs after the run is over (so every
\* request that arrives after it) returns exactly one record per supported
\* file of the scanned directory.
C18_IndexCompletesThenFullListings ==
    /\ (server.phase = "serving" /\ AutoIndexWithCache)
           ~> (server.index_task = Some("done") \/ server.phase # "serving")
    /\ [][\A r \in Requests :
              AutoIndexWithCache /\ TaskDone(server.index_task) /\ Lists(r) =>
                  /\ requests'[r].pc = "responded"
                  /\ Len(Val(requests'[r].results)) = Len(SupportedFiles)]_vars

\* no request has arrived yet
NoRequestYet == \A r \in Requests : requests[r].pc = "idle"

\* C19: a background indexing task is started at startup exactly when
\* auto-index-on-startup is enabled; when it is disabled, startup performs no
\* directory scan, no duration extraction and no source-client call: until a
\* request arrives nothing is scanned, extracted or looked up and the cache
\* stays empty.
C19_IndexTaskIffAutoIndex ==
    server.phase = "serving" =>
        /\ server.index_task # None <=> server.settings.auto_index_on_startup
        /\ ~server.settings.auto_index_on_startup /\ NoRequestYet =>
              /\ server.scans = 0
              /\ server.extractions = 0
              /\ calls = <<>>
              /\ inv[0].pc = "idle"
              /\ CachedMovies = <<>>

\* the server started with auto-index disabled, over a directory with videos,
\* and waits for its first request
C19_Witness ==
    /\ server.phase = "serving"
    /\ ~server.settings.auto_index_on_startup
    /\ server.settings.movie_directory = Library
    /\ NoRequestYet

\* the configured directory is missing or is no directory, or the credential is
\* empty or only whitespace
InvalidSettings ==
    \/ ~server.settings.movie_directory.exists
    \/ ~server.settings.movie_directory.is_dir
    \/ \A i \in 1..Len(server.settings.omdb_api_key) :
           server.settings.omdb_api_key[i] \in Whitespace

\* C21: if the configured movie directory does not exist or is not a directory,
\* or the API credential is empty or only whitespace, loading the settings fails
\* with an error, and a server that runs startup never gets past it: startup
\* creates no cache and no indexing task, nothing is scanned or looked up and no
\* request is served.
C21_InvalidSettingsFailStartup ==
    InvalidSettings =>
        /\ get_settings(server.settings).exc # ""
        /\ server.phase \in {"boot", "failed"}
        /\ server.app_settings = None
        /\ server.index_task = None
        /\ inv[0].pc = "idle"
        /\ server.scans = 0 /\ server.extractions = 0
        /\ calls = <<>>
        /\ server.phase = "failed" =>
              /\ NoRequestYet
              /\ \/ heap = <<>> /\ store = 0
                 \/ heap = ProvidedCache.heap /\ store = ProvidedCache.ref

\* startup has failed for a movie directory that is a file, with a good credential
C21_Witness ==
    /\ server.phase = "failed"
    /\ server.settings.movie_directory = NotADirectory
    /\ server.settings.omdb_api_key = <<"k">>

\* the keys of the shared cache
SharedKeys == DictKeys(heap[store])

\* the paths of the files the indexing run was through with when it stopped
DoneBefore(r) == {r.movies[k].file_path : k \in 1..(r.i - 1)}

\* C23: if the indexing run is cancelled while a source-client call is in
\* flight, no record is written for that file or for any later file of the
\* input: the cache then holds records exactly for the files whose lookup
\* completed before the cancellation, and the cancellation itself writes
\* nothing.
C23_CancelledRunWritesNoPartialRecord ==
    /\ [](inv[0].pc = "cancelled" => SharedKeys = DoneBefore(inv[0]))
    /\ [][server.index_task = Some("cancelling") => heap' = heap]_vars

\* the run was cancelled during the lookup of its second file: the cache holds
\* the first file's record only
C23_Witness ==
    /\ inv[0].pc = "cancelled"
    /\ inv[0].i = 2 /\ Len(inv[0].movies) = 2
    /\ Cardinality(SharedKeys) = 1

\* C24: on shutdown an unfinished background indexing task is cancelled and
\* then awaited before shutdown completes: a shutdown that has begun completes,
\* and once it has completed the task (if there is one) is done and no step
\* makes a source-client call or writes to a cache any more.
C24_ShutdownAwaitsCancelledTask ==
    /\ [](server.phase = "stopped" =>
             server.index_task = None \/ TaskDone(server.index_task))
    /\ [][server.phase = "stopped" =>
              calls' = calls /\ heap' = heap /\ inv' = inv]_vars
    /\ (server.phase = "stopping") ~> (server.phase = "stopped")

\* shutdown has completed after it cancelled a run that had a lookup in flight
C24_Witness ==
    /\ server.phase = "stopped"
    /\ server.index_task = Some("cancelled")
    /\ inv[0].pc = "cancelled"

\* task t is between the cache check and the cache write for key k of cache st
Between(t, st, k) ==
    /\ inv[t].pc = "fetching"
    /\ CacheOf(t) = st
    /\ cache_key(inv[t].movies[inv[t].i]) = k

\* the keys the tasks work on
TaskKeys == {e.path : e \in Range(Library.entries)}

\* C25 as claimed: at any moment at most one enrich invocation is between its
\* cache check and its cache write for a given key of a cache, whether it
\* belongs to the indexing task or to a listing request.
C25_OneWriterPerKey ==
    \A t1, t2 \in Tasks :
        \A k \in TaskKeys :
            Between(t1, CacheOf(t1), k) /\ Between(t2, CacheOf(t1), k) => t1 = t2

\* C25 as amended: the indexing task and a load triggered by a listing request
\* are never between cache check and cache write for the same key of the same
\* cache at the same time (loads of two listing requests can be).
C25_IndexTaskAndLoadsApart ==
    \A r \in Requests :
        \A k \in TaskKeys :
            ~(Between(0, store, k) /\ Between(r, store, k))

\* the indexing task is in a lookup while a request that found the cache empty
\* waits for the task instead of loading the library itself
C25_Witness ==
    /\ inv[0].pc = "fetching"
    /\ server.settings.enable_cache
    /\ \E r \in Requests : requests[r].pc = "awaiting_index"

\* the sequences a and b hold the same records, each as often
SameRecords(a, b) ==
    /\ Len(a) = Len(b)
    /\ \A x \in Range(a) \cup Range(b) :
           Cardinality({i \in 1..Len(a) : a[i] = x}) =
           Cardinality({i \in 1..Len(b) : b[i] = x})

\* C26: while the background indexing run is in progress and the shared cache
\* holds at least one record, with caching enabled, list_movies responds in
\* the step it is called in with exactly the records the cache holds at that
\* moment: it does not await the run, makes no source-client call and writes
\* nothing to a cache; nor do the steps of get_cache before it.
C26_ListingWhileIndexing ==
    [][\A r \in Requests :
          /\ (/\ Lists(r)
               /\ server.settings.enable_cache
               /\ server.index_task = Some("running")
               /\ DictValues(heap[store]) # <<>>)
              => /\ requests[r].cache = store
                 /\ requests'[r].pc = "responded"
                 /\ requests'[r].awaited = 0
                 /\ SameRecords(Val(requests'[r].results), DictValues(heap[store]))
                 /\ calls' = calls
                 /\ inv' = inv
                 /\ heap' = heap /\ store' = store
          /\ (/\ requests'[r] # requests[r]
               /\ requests[r].pc \in {"idle", "get_cache"}
               /\ server.index_task = Some("running"))
              => /\ requests'[r].cache = store
                 /\ calls' = calls
                 /\ inv' = inv
                 /\ heap' = heap /\ store' = store]_vars

\* a request was answered with the one record of a cache that the running
\* indexing task has filled in part
C26_Witness ==
    /\ server.settings.enable_cache
    /\ server.index_task = Some("running")
    /\ inv[0].pc = "fetching"
    /\ \E r \in Requests :
           /\ requests[r].pc = "responded"
           /\ requests[r].awaited = 0
           /\ Len(Val(requests[r].results)) = 1
           /\ Len(Val(requests[r].results)) < Len(SupportedFiles)
           /\ SameRecords(Val(requests[r].results), DictValues(heap[store]))

\* the source-client calls task t has made
CallsBy(t) == SelectSeq(calls, LAMBDA c : c.by = t)

\* what the shared cache holds: nothing as long as the application has none
SharedContents == IF store = 0 THEN EmptyDict ELSE heap[store]

\* the step belongs to a listing request
RequestStep == requests' # requests

\* C20: with caching disabled, every listing request performs a full
\* scan-and-enrich pass with a fresh throwaway cache: a request that has ended
\* has made one source-client call per scanned file, its response holds the
\* records of that pass, one per scanned file, and no step of a request changes
\* the shared cache.
C20_FullPassPerRequest ==
    /\ [](~server.settings.enable_cache =>
             \A r \in Requests :
                 Ended(r) =>
                     /\ CacheOf(r) # store
                     /\ Len(CallsBy(r)) = Len(SupportedFiles)
                     /\ requests[r].pc = "responded"
                     /\ Len(Val(requests[r].results)) = Len(SupportedFiles)
                     /\ \A i \in 1..Len(Val(requests[r].results)) :
                            \E k \in 1..Len(inv[r].enriched) :
                                Val(requests[r].results)[i] = inv[r].enriched[k])
    /\ [][~server.settings.enable_cache /\ RequestStep =>
              SharedContents' = SharedContents]_vars

(***************************************************************************)
(* Settings.get_noise_tokens on its own (src/app/core/config.py): the      *)
(* environment sets FILENAME_NOISE_TOKENS or leaves it unset, the settings *)
(* are loaded and the method is called once.                               *)
(***************************************************************************)
MaxSettingPieces == 3

\* settings.get_noise_tokens(): Settings declares no noise-token field (the
\* variable of the environment is dropped by extra="ignore") and no such method,
\* so the attribute lookup on the pydantic model raises AttributeError
get_noise_tokens(setting) == Raised("AttributeError")

SettingPieces == {<<"a">>, <<"B">>, <<",">>, <<" ">>, <<"-">>}
NoiseTokenSettings ==
    {None} \cup {Some(Concat(ps)) : ps \in SeqsUpTo(SettingPieces, MaxSettingPieces)}

ConfigInit ==
    /\ filename_noise_tokens \in NoiseTokenSettings
    /\ got_noise_tokens = None
    /\ heap = <<>> /\ store = 0 /\ initial = None /\ snapshot = None /\ oplog = <<>>
    /\ IdleEnrich
    /\ IdleNormalizer
    /\ IdleClient /\ IdleSearch /\ IdleServer

\* settings = Settings(_env_file=None); settings.get_noise_tokens()
GetNoiseTokensCall ==
    /\ got_noise_tokens = None
    /\ got_noise_tokens' = Some(get_noise_tokens(filename_noise_tokens))
    /\ UNCHANGED filename_noise_tokens
    /\ UNCHANGED cacheVars
    /\ UNCHANGED enrichVars
    /\ UNCHANGED normVars
    /\ UNCHANGED <<clientVars, searchVars, serverVars>>

ConfigNext == GetNoiseTokensCall

ConfigSpec == ConfigInit /\ [][ConfigNext]_vars

\* the entries of a comma-separated setting in their written order, each
\* trimmed, the empty ones left out
TrimmedEntries(parts) ==
    SelectSeq([i \in 1..Len(parts) |-> Strip(parts[i])], LAMBDA e : e # <<>>)
ExpectedNoiseTokens(setting) ==
    IF setting = None THEN <<>> ELSE TrimmedEntries(SplitOn(Val(setting), ","))

\* C22: Settings.get_noise_tokens() returns the comma-separated noise-token
\* setting as a list in its written order, each entry trimmed, empty entries
\* discarded and entries with a space or hyphen kept as single phrases, and the
\* empty list when the setting is not set.
C22_NoiseTokensParsed ==
    got_noise_tokens # None =>
        Val(got_noise_tokens) = Returned(ExpectedNoiseTokens(filename_noise_tokens))

(***************************************************************************)
(* The cache on its own: it is constructed, with or without an initial     *)
(* mapping, and then used through its interface, while its caller changes  *)
(* the mappings the caller owns: the one it passed to the constructor and   *)
(* the one get_all() returned last.                                        *)
(***************************************************************************)
MaxOps == 4

CacheKeys == {"movie:1", "movie:2"}
SampleMovies ==
    {[file_path |-> <<"/", "m", "/", "1">>, title |-> Some("Test Movie"),
      genres |-> <<"Action">>, plot |-> Some("Test Movie plot"), duration_minutes |-> 120],
     [file_path |-> <<"/", "m", "/", "2">>, title |-> Some("Movie 2"),
      genres |-> <<"Action">>, plot |-> Some("Movie 2 plot"), duration_minutes |-> 130]}
InitialDicts ==
    {EmptyDict} \cup {<<[key |-> "movie:1", value |-> m]>> : m \in SampleMovies}

\* cache = InMemoryCache(initial), or InMemoryCache() when nothing is given
CacheInit ==
    /\ \E given \in BOOLEAN : \E m0 \in IF given THEN InitialDicts ELSE {EmptyDict} :
          LET h0 == IF given THEN <<m0>> ELSE <<>>
              init == IF given THEN Some(1) ELSE None
              c == InMemoryCache_init(h0, init)
          IN /\ heap = c.heap
             /\ store = c.ref
             /\ initial = init
             /\ oplog = <<[op |-> "init", data |-> m0]>>
    /\ snapshot = None
    /\ IdleEnrich
    /\ IdleNormalizer
    /\ IdleClient /\ IdleSearch /\ IdleServer /\ IdleConfig

\* cache.set(k, v)
CacheSet(k, v) ==
    /\ Len(oplog) <= MaxOps
    /\ heap' = set(heap, store, k, v)
    /\ oplog' = Append(oplog, [op |-> "set", key |-> k, value |-> v])
    /\ UNCHANGED <<store, initial, snapshot>>
    /\ UNCHANGED enrichVars
    /\ UNCHANGED normVars
    /\ UNCHANGED <<configVars, clientVars, searchVars, serverVars>>

\* cache.clear()
CacheClear ==
    /\ Len(oplog) <= MaxOps
    /\ heap' = clear(heap, store)
    /\ oplog' = Append(oplog, [op |-> "clear"])
    /\ UNCHANGED <<store, initial, snapshot>>
    /\ UNCHANGED enrichVars
    /\ UNCHANGED normVars
    /\ UNCHANGED <<configVars, clientVars, searchVars, serverVars>>

\* all_items = cache.get_all()
CacheGetAll ==
    /\ Len(oplog) <= MaxOps
    /\ LET r == get_all(heap, store) IN
          /\ heap' = r.heap
          /\ snapshot' = Some(r.ref)
    /\ oplog' = Append(oplog, [op |-> "get_all"])
    /\ UNCHANGED <<store, initial>>
    /\ UNCHANGED enrichVars
    /\ UNCHANGED normVars
    /\ UNCHANGED <<configVars, clientVars, searchVars, serverVars>>

\* the mappings the caller holds
CallerDicts ==
    (IF initial = None THEN {} ELSE {Val(initial)})
        \cup (IF snapshot = None THEN {} ELSE {Val(snapshot)})

\* the caller adds or replaces an item of a mapping it holds: d[k] = v
CallerSetsItem(id, k, v) ==
    /\ Len(oplog) <= MaxOps
    /\ id \in CallerDicts
    /\ heap' = [heap EXCEPT ![id] = DictSet(@, k, v)]
    /\ oplog' = Append(oplog, [op |-> "caller", ref |-> id])
    /\ UNCHANGED <<store, initial, snapshot>>
    /\ UNCHANGED enrichVars
    /\ UNCHANGED normVars
    /\ UNCHANGED <<configVars, clientVars, searchVars, serverVars>>

\* the caller removes an item of a mapping it holds: del d[k]
CallerDeletesItem(id, k) ==
    /\ Len(oplog) <= MaxOps
    /\ id \in CallerDicts
    /\ DictHas(heap[id], k)
    /\ heap' = [heap EXCEPT ![id] = DictDel(@, k)]
    /\ oplog' = Append(oplog, [op |-> "caller", ref |-> id])
    /\ UNCHANGED <<store, initial, snapshot>>
    /\ UNCHANGED enrichVars
    /\ UNCHANGED normVars
    /\ UNCHANGED <<configVars, clientVars, searchVars, serverVars>>

CacheNext ==
    \/ \E k \in CacheKeys, v \in SampleMovies : CacheSet(k, v)
    \/ CacheClear
    \/ CacheGetAll
    \/ \E id \in 1..Len(heap), k \in CacheKeys, v \in SampleMovies : CallerSetsItem(id, k, v)
    \/ \E id \in 1..Len(heap), k \in CacheKeys : CallerDeletesItem(id, k)

CacheSpec == CacheInit /\ [][CacheNext]_vars

(***************************************************************************)
(* The normaliser on its own: a path and a noise-token configuration are   *)
(* drawn, then _normalize_filename is applied once.                        *)
(***************************************************************************)
MaxPieces == 3
MaxTokens == 2

Year1999 == <<"1", "9", "9", "9">>
NamePieces == {<<"a">>, <<"A">>, <<"b">>, <<".">>, <<"-">>, <<" ">>,
               Year1999, <<"A", "-", "b">>, <<"_", "(", ")", "[", "]">>, <<"\f">>,
               <<"-", "-">>, <<"-", "a">>}
Extension == <<".", "m", "k", "v">>
Directory == <<"/", "m", "/">>
\* single words, compound phrases (one of them, "a-a", can overlap itself in a
\* name) and a compound token that is no phrase of words
TokenPool == {<<"a">>, <<"B">>, <<"a", "-", "B">>, <<"b", " ", "a">>, <<"-", "-">>,
              <<"a", "-", "a">>}

Paths == {Directory \o Concat(ps) \o Extension : ps \in SeqsUpTo(NamePieces, MaxPieces)}
\* the configurations: lists of distinct tokens, in every order
TokenLists == {ts \in SeqsUpTo(TokenPool, MaxTokens) :
                  \A i, j \in 1..Len(ts) : i # j => ts[i] # ts[j]}

NormInit ==
    /\ file_path \in Paths
    /\ noise_tokens \in TokenLists
    /\ title = None
    /\ npc = "ready"
    /\ renormalized = None
    /\ heap = <<>> /\ store = 0 /\ initial = None /\ snapshot = None /\ oplog = <<>>
    /\ IdleEnrich
    /\ IdleClient /\ IdleSearch /\ IdleServer /\ IdleConfig

NormalizeCall ==
    /\ npc = "ready"
    /\ title' = Some(_normalize_filename(file_path,
                                         compound_patterns(noise_tokens),
                                         single_tokens(noise_tokens)))
    /\ npc' = "done"
    /\ UNCHANGED <<file_path, noise_tokens, renormalized>>
    /\ UNCHANGED cacheVars
    /\ UNCHANGED enrichVars
    /\ UNCHANGED <<configVars, clientVars, searchVars, serverVars>>

\* the title the call returned is normalized once more, under the same
\* configuration: _normalize_filename(Path(title), ...)
NormalizeTitle ==
    /\ npc = "done"
    /\ renormalized = None
    /\ renormalized' = Some(_normalize_filename(Val(title),
                                                compound_patterns(noise_tokens),
                                                single_tokens(noise_tokens)))
    /\ UNCHANGED <<file_path, noise_tokens, title, npc>>
    /\ UNCHANGED cacheVars
    /\ UNCHANGED enrichVars
    /\ UNCHANGED <<configVars, clientVars, searchVars, serverVars>>

NormNext == NormalizeCall \/ NormalizeTitle

NormSpec == NormInit /\ [][NormNext]_vars

(***************************************************************************)
(* The normaliser on names with years: 4-digit words inside and outside    *)
(* 1900..2099, alone, next to separators and hyphens, and inside longer    *)
(* words; the configuration is empty or one single-word token.             *)
(***************************************************************************)
MaxYearPieces == 3

TheMatrix == <<"T", "h", "e", ".", "M", "a", "t", "r", "i", "x">>
YearPieces == {TheMatrix, <<".">>, <<"-">>, <<" ">>, <<"_">>, <<"x">>,
               Year1999, <<"2", "0", "2", "4">>, <<"1", "8", "9", "9">>,
               <<"2", "1", "0", "0">>}
YearPaths == {Directory \o Concat(ps) \o Extension : ps \in SeqsUpTo(YearPieces, MaxYearPieces)}
YearTokenLists == {<<>>, <<<<"x">>>>}

YearInit ==
    /\ file_path \in YearPaths
    /\ noise_tokens \in YearTokenLists
    /\ title = None
    /\ npc = "ready"
    /\ renormalized = None
    /\ heap = <<>> /\ store = 0 /\ initial = None /\ snapshot = None /\ oplog = <<>>
    /\ IdleEnrich
    /\ IdleClient /\ IdleSearch /\ IdleServer /\ IdleConfig

YearSpec == YearInit /\ [][NormNext]_vars

(***************************************************************************)
(* Claims about enrich_movies (checked under Spec, C1 under SeqSpec)       *)
(***************************************************************************)
\* the files invocation p has dealt with: those before its current one
Handled(p) == {inv[p].movies[k].file_path : k \in 1..(inv[p].i - 1)}

\* C1: over non-overlapping invocations on one cache that is never cleared, the
\* source client is called exactly once for each distinct file path (no path is
\* called for twice, every file dealt with was called for), and two invocations
\* that return for the same file list return equal records.
C1_OneCallPerPath ==
    /\ \A i, j \in 1..Len(calls) : i # j => calls[i].key # calls[j].key
    /\ \A p \in Procs : \A path \in Handled(p) :
          \E i \in 1..Len(calls) : calls[i].key = path
    /\ \A i, j \in 1..Len(finished) :
          finished[i].movies = finished[j].movies
              => finished[i].enriched = finished[j].enriched

\* C2: enrich returns a sequence of the same length as its input whose i-th
\* record carries the i-th input file's path.
C2_OrderPreserving ==
    \A p \in Procs : inv[p].pc = "returned" =>
        /\ Len(inv[p].enriched) = Len(inv[p].movies)
        /\ \A k \in 1..Len(inv[p].movies) :
              inv[p].enriched[k].file_path = inv[p].movies[k].file_path

\* C2 witness: an invocation returned two records for two different files, the
\* first taken from the cache and the second built from a fresh lookup
C2_Witness ==
    \E p \in Procs :
        /\ inv[p].pc = "returned"
        /\ Len(inv[p].movies) = 2
        /\ inv[p].movies[1].file_path # inv[p].movies[2].file_path
        /\ Cardinality({i \in 1..Len(calls) : calls[i].by = p}) >= 1
        /\ \E i \in 1..Len(calls) :
              calls[i].by # p /\ calls[i].key = inv[p].movies[1].file_path
        /\ \A i \in 1..Len(calls) :
              calls[i].by = p => calls[i].key = inv[p].movies[2].file_path

\* C3: whatever the source does for a file, enrich does not raise and does not
\* stop: no invocation is left by an exception.
C3_NeverRaises ==
    \A p \in Procs : inv[p].pc # "raised"

\* the record the last _build_metadata call gave, when it gave one
LastBuilt == Val(Val(built).result.value)

\* C4: the record built for an uncached file has, when the client returned
\* absent, no title, no genres, no plot and the file's technical duration; when
\* the client returned data, the data's title, genres and plot and the file's
\* technical duration, except that a technical duration of 0 gives way to the
\* runtime the source supplied.
C4_BuiltRecord ==
    (built # None /\ Val(built).result.exc = "") =>
        LET movie == Val(built).movie
            data == Val(built).omdb_data
        IN IF data = None
           THEN /\ LastBuilt.title = None
                /\ LastBuilt.genres = <<>>
                /\ LastBuilt.plot = None
                /\ LastBuilt.duration_minutes = movie.duration_minutes
           ELSE /\ LastBuilt.title = Val(data).title
                /\ LastBuilt.genres = Val(data).genres
                /\ LastBuilt.plot = Val(data).plot
                /\ LastBuilt.duration_minutes =
                      IF movie.duration_minutes = 0 /\ Val(data).runtime_minutes # None
                      THEN Val(Val(data).runtime_minutes)
                      ELSE movie.duration_minutes
                /\ (movie.duration_minutes = 0 /\ Val(data).runtime_minutes = Some(80))
                      => LastBuilt.duration_minutes = 80
                /\ movie.duration_minutes = 95 => LastBuilt.duration_minutes = 95

\* C4 witness: a file of technical duration 0 got the source's runtime of 80
C4_Witness ==
    /\ built # None
    /\ Val(built).result.exc = ""
    /\ Val(built).movie.duration_minutes = 0
    /\ Val(built).omdb_data # None
    /\ Val(Val(built).omdb_data).runtime_minutes = Some(80)
    /\ LastBuilt.duration_minutes = 80

\* every record enrich returned or the cache holds
RecordsAround ==
    UNION {Range(inv[p].enriched) : p \in Procs}
        \cup UNION {Range(finished[i].enriched) : i \in 1..Len(finished)}
        \cup Range(DictValues(heap[store]))

\* C5: every record returned by enrich or held in the cache has a duration of at
\* least 0; and a technical duration of 0 with no usable runtime from the source
\* (absent result or absent runtime) gives a record of duration 0.
C5_DurationNeverNegative ==
    /\ \A m \in RecordsAround : m.duration_minutes >= 0
    /\ (/\ built # None
        /\ Val(built).movie.duration_minutes = 0
        /\ \/ Val(built).omdb_data = None
           \/ Val(Val(built).omdb_data).runtime_minutes = None)
       => (Val(built).result.exc = "" /\ LastBuilt.duration_minutes = 0)

\* C5 witness: the source reported a negative runtime for a file of technical
\* duration 0, for which no record was built, and the cache holds a record of
\* duration 0 for that file from a lookup that gave no runtime
C5_Witness ==
    /\ built # None
    /\ Val(built).movie.duration_minutes = 0
    /\ Val(built).omdb_data # None
    /\ Val(Val(built).omdb_data).runtime_minutes # None
    /\ Val(Val(Val(built).omdb_data).runtime_minutes) < 0
    /\ Val(built).result.exc = "ValidationError"
    /\ \E m \in Range(DictValues(heap[store])) :
          m.file_path = Val(built).movie.file_path /\ m.duration_minutes = 0

\* the cache's entry for k changes in this step
Rewritten(k) == get(heap', store', k) # get(heap, store, k)
AllKeys == {f.file_path : f \in MovieFiles}

\* C6 as stated: also when invocations overlap, an entry that exists is never
\* overwritten.
C6_ExistingEntryNeverOverwritten ==
    [][\A k \in AllKeys : exists(heap, store, k) => ~Rewritten(k)]_vars

\* C6 amended: a key is written by an invocation only if it was absent when that
\* invocation checked the cache for it (the check that led to its source-client
\* call); an existing entry is overwritten only by such an invocation, whose
\* lookup was in flight while another invocation wrote the key.
C6_WrittenOnlyAfterMiss ==
    [][\A k \in AllKeys : Rewritten(k) =>
          \E p \in Procs :
              /\ inv[p].pc = "fetching"
              /\ cache_key(inv[p].movies[inv[p].i]) = k
              /\ inv[p].cached = None
              /\ inv'[p] # inv[p]
              /\ exists(heap, store, k) =>
                    \E i, j \in 1..Len(calls) :
                        /\ calls[i].key = k /\ calls[j].key = k
                        /\ calls[i].by # calls[j].by]_vars

\* C6 witness: two invocations asked the source for the same key and the cache
\* holds an entry for it that differs from a record one of them returned
C6_Witness ==
    \E k \in AllKeys : \E i, j \in 1..Len(calls) :
        /\ calls[i].key = k /\ calls[j].key = k /\ calls[i].by # calls[j].by
        /\ exists(heap, store, k)
        /\ \E n \in 1..Len(finished) : \E m \in Range(finished[n].enriched) :
              m.file_path = k /\ Some(m) # get(heap, store, k)

\* invocation p is awaiting the lookup of a file whose normalized title is empty
AwaitsEmptyTitle(p) == inv[p].pc = "fetching" /\ inv[p].title_query = Some(<<>>)

\* C27: when the normalized title of a file is the empty string, enrich still
\* calls the source client, once and with the empty string, and when the
\* lookup returns (data or absent) a record for the file is produced, appended
\* to the output and stored in the cache under the file's path.
C27_EmptyTitleStillQueried ==
    [][\A p \in Procs :
          /\ (inv'[p] # inv[p] /\ AwaitsEmptyTitle(p)')
             => calls' = Append(calls, [by |-> p,
                                        key |-> cache_key(inv'[p].movies[inv'[p].i]),
                                        title |-> <<>>])
          /\ \A response \in Responses :
                (/\ AwaitsEmptyTitle(p)
                 /\ fetch_movie_metadata(response).exc = ""
                 /\ FetchReturns(p, response))
                => LET k == cache_key(inv[p].movies[inv[p].i])
                       stored == get(heap', store', k)
                   IN /\ stored # None
                      /\ Val(stored).file_path = k
                      /\ inv'[p].pc # "raised"
                      /\ Len(inv'[p].enriched) > Len(inv[p].enriched)
                      /\ inv'[p].enriched[Len(inv[p].enriched) + 1] = Val(stored)
                      /\ \A c \in Range(calls') \ Range(calls) : c.key # k]_vars

\* an absent result has been stored for key k: the log of the cache holds a
\* write of a title-less record under k
AbsentStored(k) ==
    \E n \in 1..Len(oplog) :
        oplog[n].op = "set" /\ oplog[n].key = k /\ oplog[n].value.title = None

\* the record last written under key k, by the log of the cache
LastStored(log, k) ==
    LET writes == {n \in 1..Len(log) : log[n].op = "set" /\ log[n].key = k}
    IN log[CHOOSE n \in writes : \A m \in writes : m <= n].value

\* the positions of its input at which invocation p checks the cache in this
\* step: those it passes with a hit, and the one at which it stops to await the
\* source after a miss
CheckedIn(p) ==
    LET last == IF inv'[p].pc = "fetching" THEN inv'[p].i ELSE inv'[p].i - 1
    IN IF started' # started /\ EnrichMoviesCall(p, inv'[p].movies)
       THEN 1..last
       ELSE IF inv[p].pc = "fetching" /\ inv'[p] # inv[p] /\ inv'[p].pc # "raised"
       THEN (inv[p].i + 1)..last
       ELSE {}

\* C28 as claimed: once a lookup of a file has returned absent and the title-less
\* record is stored, every later cache check for that file returns that
\* title-less record and no source-client call is made for it.
C28_AbsentRecordReturnedEverAfter ==
    [][\A p \in Procs : \A k \in AllKeys :
          AbsentStored(k) =>
             \A j \in CheckedIn(p) :
                 cache_key(inv'[p].movies[j]) = k =>
                     /\ j < inv'[p].i
                     /\ inv'[p].enriched[j].file_path = k
                     /\ inv'[p].enriched[j].title = None]_vars

\* C28 as amended: once a lookup of a file has returned absent and the title-less
\* record is stored, every later cache check for that file is a hit: it returns
\* the record last written for the file and no source-client call is made for
\* it.  That record is the title-less one unless an invocation that had missed
\* the file before has written its own result since.
C28_AbsentRecordIsCached ==
    [][\A p \in Procs : \A k \in AllKeys :
          AbsentStored(k) =>
             \A j \in CheckedIn(p) :
                 cache_key(inv'[p].movies[j]) = k =>
                     /\ j < inv'[p].i
                     /\ inv'[p].enriched[j] = LastStored(oplog', k)
                     /\ \A n \in (Len(calls) + 1)..Len(calls') : calls'[n].key # k]_vars

\* C28 witness: one lookup was made, it returned absent, and a later invocation
\* over the same file returned the title-less record without a second call
C28_Witness ==
    /\ Len(calls) = 1
    /\ AbsentStored(calls[1].key)
    /\ Len(finished) = 2
    /\ \A n \in 1..2 :
          /\ Len(finished[n].enriched) = 1
          /\ finished[n].enriched[1].file_path = calls[1].key
          /\ finished[n].enriched[1].title = None

\* the lookup invocation p awaits completes in this step: the source client
\* returns data or absent
LookupCompletes(p) ==
    \E response \in Responses :
        fetch_movie_metadata(response).exc = "" /\ FetchReturns(p, response)

\* C29: on a cache that starts empty, every cache key k maps to a record whose
\* file path is k, and the cache keys are the paths of the files whose lookup
\* has completed: a key is there as soon as a lookup of its file completes,
\* and a key appears only when a lookup of its file completes.
C29_KeysAreCompletedLookups ==
    [][/\ \A k \in AllKeys :
             exists(heap', store', k) => Val(get(heap', store', k)).file_path = k
       /\ \A p \in Procs :
             (inv[p].pc = "fetching" /\ LookupCompletes(p))
             => exists(heap', store', cache_key(inv[p].movies[inv[p].i]))
       /\ \A k \in AllKeys :
             (exists(heap', store', k) /\ ~exists(heap, store, k))
             => \E p \in Procs :
                    /\ inv[p].pc = "fetching"
                    /\ cache_key(inv[p].movies[inv[p].i]) = k
                    /\ LookupCompletes(p)]_vars

(***************************************************************************)
(* Claims about the normaliser (checked under NormSpec)                    *)
(***************************************************************************)
Count(w, ws) == Cardinality({i \in 1..Len(ws) : ws[i] = w})

\* the words of the title the call returned
TitleWords == Split(Val(title))
\* the words the single-token filter is applied to
WordsBeforeFilter == SplitName(file_path, compound_patterns(noise_tokens))
SingleWordTokens == {t \in Range(noise_tokens) : ~IsCompound(t)}
CompoundTokens == {t \in Range(noise_tokens) : IsCompound(t)}

SameIgnoringCase(u, w) == LowerStr(u) = LowerStr(w)
\* t occurs inside w, ignoring case, and w is longer than t
IsProperSubstring(t, w) ==
    /\ Len(t) < Len(w)
    /\ \E i \in 1..(Len(w) - Len(t) + 1) : SameIgnoringCase(SubSeq(w, i, i + Len(t) - 1), t)

\* C9: no word of the normalized title equals a configured single-word token,
\* ignoring case; and a word that only contains a configured token as a proper
\* substring (and equals no token) is kept, as often as it occurs.
C9_SingleTokensWholeWord ==
    npc = "done" =>
        /\ \A i \in 1..Len(TitleWords) : \A t \in SingleWordTokens :
              ~SameIgnoringCase(TitleWords[i], t)
        /\ \A i \in 1..Len(WordsBeforeFilter) :
              LET w == WordsBeforeFilter[i] IN
              (/\ \E t \in SingleWordTokens : IsProperSubstring(t, w)
               /\ \A t \in SingleWordTokens : ~SameIgnoringCase(w, t))
              => Count(w, TitleWords) = Count(w, WordsBeforeFilter)

\* C9 witness: a word that differs from a token only by case was dropped and a
\* word containing a token as a proper substring was kept
C9_Witness ==
    /\ npc = "done"
    /\ \E i \in 1..Len(WordsBeforeFilter) : \E t \in SingleWordTokens :
          /\ SameIgnoringCase(WordsBeforeFilter[i], t)
          /\ WordsBeforeFilter[i] # t
    /\ \E i \in 1..Len(TitleWords) : \E t \in SingleWordTokens :
          IsProperSubstring(t, TitleWords[i])

\* the name the compound patterns are applied to
NameBeforePatterns == YearSub(ReplaceChars(Stem(file_path), Separators))
\* the whole-phrase occurrences of configured compound tokens in that name
Occurrences ==
    {o \in CompoundTokens \X (1..Len(NameBeforePatterns)) :
        PatternAt(o[1], NameBeforePatterns, o[2])}
Overlap(o1, o2) == o1[2] < o2[2] + Len(o2[1]) /\ o2[2] < o1[2] + Len(o1[1])
Alone(o) == \A o2 \in Occurrences : o2 # o => ~Overlap(o, o2)
CutOut(s, i, n) == SubSeq(s, 1, i - 1) \o SubSeq(s, i + n, Len(s))
\* the title of a name from which a phrase was cut out
TitleOf(s) ==
    LET name3 == ApplyPatterns(compound_patterns(noise_tokens), s)
        words == Split(ReplaceChars(name3, {"-"}))
        Keep(w) == LowerStr(w) \notin {LowerStr(t) : t \in SingleWordTokens}
    IN Join(SelectSeq(words, Keep))
ComponentWords == UNION {Range(Split(ReplaceChars(LowerStr(t), {"-"}))) : t \in CompoundTokens}

\* the second half of C10: in a name where no compound phrase occurs, a word
\* that is a component of a compound token and is not itself a token is kept
ComponentWordKept ==
    (npc = "done" /\ Occurrences = {}) =>
        LET words == Split(ReplaceChars(NameBeforePatterns, {"-"})) IN
        \A i \in 1..Len(words) :
            (/\ LowerStr(words[i]) \in ComponentWords
             /\ \A t \in SingleWordTokens : ~SameIgnoringCase(words[i], t))
            => Count(words[i], TitleWords) = Count(words[i], words)

\* C10 as stated: every whole-phrase occurrence of a configured compound token,
\* in any letter case, is deleted as one unit (the title is the title of the name
\* without the phrase), and a component word that is no token is kept on its own.
C10_CompoundRemovedAsUnit ==
    /\ npc = "done" =>
          \A o \in Occurrences :
              Val(title) = TitleOf(CutOut(NameBeforePatterns, o[2], Len(o[1])))
    /\ ComponentWordKept

\* the token is made of words joined by single characters that are no word
\* characters (in a compound token that can match: single hyphens or spaces)
IsPhrase(t) ==
    /\ t # <<>>
    /\ IsWordChar(t[1])
    /\ IsWordChar(t[Len(t)])
    /\ \A i \in 1..(Len(t) - 1) : IsWordChar(t[i]) \/ IsWordChar(t[i + 1])

\* the occurrence o overlaps no occurrence of a token other than its own
AloneAmongOthers(o) ==
    \A o2 \in Occurrences : o2[1] # o[1] => ~Overlap(o, o2)

\* The amendment needs both of its restrictions.  Without the one to
\* configurations of phrases the statement fails: with the tokens "--" and
\* "a-B" the name "a--A-b" becomes "aA-b" when "--" is removed, where "A-b" is
\* no whole phrase any more, and the title is "aA b".
RemovedUnlessOverlappedAnyTokens ==
    npc = "done" =>
        \A o \in Occurrences :
            Alone(o) => Val(title) = TitleOf(CutOut(NameBeforePatterns, o[2], Len(o[1])))

\* With overlaps excluded only between different tokens the statement fails
\* too: with the token "a-a" the name "A-a-a" loses its first match "A-a", and
\* the second occurrence "a-a" leaves its last word in the title "a".
RemovedUnlessOverlappedByAnother ==
    (npc = "done" /\ \A t \in CompoundTokens : IsPhrase(t)) =>
        \A o \in Occurrences :
            AloneAmongOthers(o) =>
                Val(title) = TitleOf(CutOut(NameBeforePatterns, o[2], Len(o[1])))

\* C10 amended: when every configured compound token is a phrase of words joined
\* by single hyphens or spaces, every whole-phrase occurrence of a configured
\* compound token, in any letter case, that overlaps no other such occurrence
\* (of the same token or of another) is deleted as one unit: the title is the
\* title of the name without the phrase; and a component word that is no token
\* is kept on its own.
C10_CompoundRemovedUnlessOverlapped ==
    /\ (npc = "done" /\ \A t \in CompoundTokens : IsPhrase(t)) =>
          \A o \in Occurrences :
              Alone(o) => Val(title) = TitleOf(CutOut(NameBeforePatterns, o[2], Len(o[1])))
    /\ ComponentWordKept

\* C10 witness: under a configuration of phrases a compound token occurs in
\* another letter case, apart from every other occurrence, is removed, and a
\* word of the name is left in the title
C10_Witness ==
    /\ npc = "done"
    /\ \A t \in CompoundTokens : IsPhrase(t)
    /\ \E o \in Occurrences :
          /\ Alone(o)
          /\ SubSeq(NameBeforePatterns, o[2], o[2] + Len(o[1]) - 1) # o[1]
    /\ Val(title) # <<>>

\* the title contains a separator character
HasSeparator(t) == \E i \in 1..Len(t) : t[i] \in Separators
\* the title contains a year as a word of its own
HasYear(t) == \E i \in 1..Len(t) : YearAt(t, i)
\* the title contains a configured token: a single-word token as a word, or a
\* compound token as a whole phrase
HasNoiseToken(t) ==
    \/ \E i \in 1..Len(Split(t)) : \E tok \in SingleWordTokens :
          SameIgnoringCase(Split(t)[i], tok)
    \/ \E tok \in CompoundTokens : \E i \in 1..Len(t) : PatternAt(tok, t, i)
\* a title _normalize_filename returned that has no separators, no years and
\* no noise tokens in it
AlreadyNormalized(t) == ~HasSeparator(t) /\ ~HasYear(t) /\ ~HasNoiseToken(t)

\* C11: normalizing an already-normalized title (a title the normaliser
\* returned, with no separators, no years and no noise tokens in it) returns
\* that title unchanged.
C11_Idempotent ==
    (renormalized # None /\ AlreadyNormalized(Val(title)))
        => Val(renormalized) = Val(title)

\* C11 witness: a title of two words, got from a name by a configuration with
\* tokens that changed the name, was normalized again and came back unchanged
C11_Witness ==
    /\ renormalized # None
    /\ AlreadyNormalized(Val(title))
    /\ Len(TitleWords) >= 2
    /\ noise_tokens # <<>>
    /\ Val(title) # Stem(file_path)
    /\ Val(renormalized) = Val(title)

\* C30: for every filename and every noise-token configuration the normalized
\* title holds none of the characters . _ ( ) [ ] and -, neither starts nor
\* ends with whitespace, and its only whitespace is the single space between
\* two words.
C30_TitleIsCleanWords ==
    npc = "done" =>
        LET t == Val(title) IN
        /\ \A i \in 1..Len(t) : t[i] \notin {".", "_", "(", ")", "[", "]", "-"}
        /\ t # <<>> => (t[1] \notin Whitespace /\ t[Len(t)] \notin Whitespace)
        /\ \A i \in 1..Len(t) :
               t[i] \in Whitespace =>
                   /\ t[i] = " "
                   /\ i < Len(t) => t[i + 1] \notin Whitespace

\* C30 witness: a name with every separator and a hyphen gave a title of two
\* or more words
C30_Witness ==
    /\ npc = "done"
    /\ {".", "-", "_", "(", ")", "[", "]"} \subseteq Range(Stem(file_path))
    /\ Len(Split(Val(title))) >= 2

(***************************************************************************)
(* Claims about the year step (checked under YearSpec)                     *)
(***************************************************************************)
\* the name after the separators were replaced by spaces
NameBeforeYears == ReplaceChars(Stem(file_path), Separators)
\* the words of s: the maximal runs of word characters, as <<first, last>>
WordRuns(s) ==
    {r \in (1..Len(s)) \X (1..Len(s)) :
        /\ r[1] <= r[2]
        /\ \A k \in r[1]..r[2] : IsWordChar(s[k])
        /\ ~WordAt(s, r[1] - 1)
        /\ ~WordAt(s, r[2] + 1)}
\* a 4-digit word in the range 1900 to 2099
IsYearWord(w) ==
    /\ Len(w) = 4
    /\ \A k \in 1..4 : w[k] \in DigitSet
    /\ DigitsValue(w, 0) >= 1900
    /\ DigitsValue(w, 0) <= 2099
YearRuns(s) == {r \in WordRuns(s) : IsYearWord(SubSeq(s, r[1], r[2]))}
\* s[k] belongs to a year word of s
InYearWord(s, k) ==
    \E i \in (k - 3)..k :
        /\ i >= 1 /\ i + 3 <= Len(s)
        /\ IsYearWord(SubSeq(s, i, i + 3))
        /\ ~WordAt(s, i - 1)
        /\ ~WordAt(s, i + 4)
\* s without its year words, every other character kept in place
RECURSIVE WithoutYearWordsFrom(_, _)
WithoutYearWordsFrom(s, k) ==
    IF k > Len(s) THEN <<>>
    ELSE (IF InYearWord(s, k) THEN <<>> ELSE <<s[k]>>) \o WithoutYearWordsFrom(s, k + 1)
WithoutYearWords(s) == WithoutYearWordsFrom(s, 1)
\* the title of a name in which no compound token is configured: its words,
\* split at spaces and hyphens, without the single-word tokens
PlainTitle(s) ==
    LET words == Split(ReplaceChars(s, {"-"}))
        Keep(w) == \A t \in SingleWordTokens : ~SameIgnoringCase(w, t)
    IN Join(SelectSeq(words, Keep))

\* C12: after the separators are replaced by spaces, the year step removes
\* every standalone 4-digit word in the range 1900 to 2099 and nothing else
\* (4-digit words outside the range and digit runs inside a longer word stay),
\* so that the title is the title of the name without those words; with an
\* empty configuration "The.Matrix.1999.mkv" normalizes to "The Matrix".
C12_YearsRemoved ==
    npc = "done" =>
        /\ YearSub(NameBeforeYears) = WithoutYearWords(NameBeforeYears)
        /\ Val(title) = PlainTitle(WithoutYearWords(NameBeforeYears))
        /\ (noise_tokens = <<>> /\ Stem(file_path) = TheMatrix \o <<".">> \o Year1999)
              => Val(title) = <<"T", "h", "e", " ", "M", "a", "t", "r", "i", "x">>

\* C12 witness: a name with a year word, a 4-digit word outside the range and
\* a year inside a longer word; the title keeps the last two only
C12_Witness ==
    /\ npc = "done"
    /\ YearRuns(NameBeforeYears) # {}
    /\ \E r \in WordRuns(NameBeforeYears) :
          LET w == SubSeq(NameBeforeYears, r[1], r[2]) IN
          /\ ~IsYearWord(w)
          /\ (Len(w) = 4 \/ Len(w) = 5)
          /\ \A k \in 1..Len(w) : k # 1 => w[k] \in DigitSet
          /\ \E i \in 1..Len(TitleWords) : TitleWords[i] = w
    /\ \A i \in 1..Len(TitleWords) : ~IsYearWord(TitleWords[i])
    /\ Val(title) # <<>>

(***************************************************************************)
(* Claims about the cache (checked under CacheSpec)                        *)
(***************************************************************************)
Max(S) == CHOOSE x \in S : \A y \in S : y <= x
\* the position of the last clear() (0 when there was none)
LastClear == Max({0} \cup {i \in 1..Len(oplog) : oplog[i].op = "clear"})
\* the item the constructor was given for k
GivenAtConstruction(k) == DictGet(oplog[1].data, k)
\* what a plain map holds for k after the operations of oplog
MostRecentSet(k) ==
    LET sets == {i \in 1..Len(oplog) :
                    /\ i > LastClear
                    /\ oplog[i].op = "set"
                    /\ oplog[i].key = k}
    IN IF sets # {} THEN Some(oplog[Max(sets)].value)
       ELSE IF LastClear = 0 THEN GivenAtConstruction(k)
       ELSE None
\* what get_all() returns in this state
GetAllNow == LET r == get_all(heap, store) IN r.heap[r.ref]

\* C7: get(k) is the value of the most recent set(k, v) since the last clear
\* (absent if there is none), exists(k) is true exactly when get(k) is not
\* absent, and get_all() is exactly that mapping, empty right after clear.
C7_CacheIsPlainMap ==
    oplog # <<>> =>
        /\ \A k \in CacheKeys :
              /\ get(heap, store, k) = MostRecentSet(k)
              /\ exists(heap, store, k) <=> get(heap, store, k) # None
        /\ DictKeys(GetAllNow) = {k \in CacheKeys : MostRecentSet(k) # None}
        /\ \A k \in DictKeys(GetAllNow) : DictGet(GetAllNow, k) = MostRecentSet(k)
        /\ oplog[Len(oplog)].op = "clear" => GetAllNow = EmptyDict

\* C7 witness: a key was set, cleared away and set again to another value, which
\* is what get returns
C7_Witness ==
    /\ Len(oplog) >= 4
    /\ \E i, j \in 1..Len(oplog) :
          /\ i < LastClear /\ LastClear < j
          /\ oplog[i].op = "set" /\ oplog[j].op = "set"
          /\ oplog[i].key = oplog[j].key
          /\ oplog[i].value # oplog[j].value
          /\ get(heap, store, oplog[j].key) = Some(oplog[j].value)

\* what the cache's interface shows
CacheView ==
    [k \in CacheKeys |-> <<get(heap, store, k), exists(heap, store, k)>>]
\* the caller changed a mapping it holds in this step
CallerStep ==
    /\ Len(oplog') = Len(oplog) + 1
    /\ oplog'[Len(oplog')].op = "caller"

\* C8: a change the caller makes to a mapping returned by get_all, or to the
\* mapping it passed to the constructor, leaves the results of get, exists and
\* get_all as they were.
C8_CallerChangesLeaveCache ==
    [][CallerStep => (CacheView' = CacheView /\ GetAllNow' = GetAllNow)]_vars

\* C8 witness: the caller has changed both the mapping it constructed the cache
\* from and a mapping get_all returned, and they differ from the cache's content
C8_Witness ==
    /\ initial # None /\ snapshot # None
    /\ \E i, j \in 1..Len(oplog) :
          /\ oplog[i].op = "caller" /\ oplog[i].ref = Val(initial)
          /\ oplog[j].op = "caller" /\ oplog[j].ref = Val(snapshot)
    /\ Mapping(heap[Val(initial)]) # Mapping(heap[store])
    /\ Mapping(heap[Val(snapshot)]) # Mapping(heap[store])
    /\ heap[store] # EmptyDict

(***************************************************************************)
(* Claims about the source client (checked under ClientSpec)               *)
(***************************************************************************)
\* the request failed in transport, got a non-2xx response, or the source
\* reported no match
NoMatchOrFailure ==
    \/ reply.kind = "RequestError"
    \/ reply.kind = "HTTPStatusError"
    \/ reply.kind = "json" /\ reply.data.Response # "True"

\* C13: for a network or transport failure, a non-2xx response, or a response
\* in which the source reports no match, fetch raises nothing and returns
\* absent.
C13_FailuresGiveAbsent ==
    (fetched # None /\ NoMatchOrFailure) =>
        /\ Val(fetched).exc = ""
        /\ Val(fetched).value = None

\* C13 witness: a non-2xx response was turned into absent
C13_Witness ==
    /\ fetched # None
    /\ reply.kind = "HTTPStatusError"
    /\ Val(fetched) = Returned(None)

\* the first whitespace-separated token of s (<<>> when s is all whitespace)
FirstToken(s) ==
    LET starts == {i \in 1..Len(s) : s[i] \notin Whitespace} IN
    IF starts = {} THEN <<>>
    ELSE LET a == CHOOSE i \in starts : \A j \in starts : i <= j
             ends == {j \in a..Len(s) : \A k \in a..j : s[k] \notin Whitespace}
             b == CHOOSE j \in ends : \A k \in ends : k <= j
         IN SubSeq(s, a, b)
\* an integer in decimal notation: digits, after an optional sign
IsDecimalInteger(tok) ==
    LET digits == IF tok # <<>> /\ tok[1] \in {"+", "-"} THEN Tail(tok) ELSE tok
    IN digits # <<>> /\ \A i \in 1..Len(digits) : digits[i] \in DigitSet
DecimalValue(tok) ==
    IF tok[1] = "-" THEN 0 - DigitsValue(Tail(tok), 0)
    ELSE IF tok[1] = "+" THEN DigitsValue(Tail(tok), 0)
    ELSE DigitsValue(tok, 0)
\* the runtime the claim gives for a runtime field
ExpectedRuntime(field) ==
    IF field = None \/ Val(field) = <<>> \/ Val(field) = NotAvailable THEN None
    ELSE IF IsDecimalInteger(FirstToken(Val(field)))
         THEN Some(DecimalValue(FirstToken(Val(field))))
         ELSE None
Found == reply.kind = "json" /\ reply.data.Response = "True"

\* C14: on a successful fetch the runtime of the result is the integer value of
\* the first whitespace-separated token of the runtime field ("127 min" gives
\* 127), and absent when the field is missing, empty, "N/A", or its first token
\* is not an integer.
C14_RuntimeParsed ==
    (fetched # None /\ Found) =>
        /\ Val(fetched).exc = ""
        /\ Val(fetched).value # None
        /\ Val(Val(fetched).value).runtime_minutes = ExpectedRuntime(reply.data.Runtime)
        /\ reply.data.Runtime = Some(<<"1", "2", "7", " ", "m", "i", "n">>)
              => Val(Val(fetched).value).runtime_minutes = Some(127)

\* C14 witness: "127 min" gave the runtime 127
C14_Witness ==
    /\ fetched # None
    /\ Found
    /\ reply.data.Runtime = Some(<<"1", "2", "7", " ", "m", "i", "n">>)
    /\ Val(Val(fetched).value).runtime_minutes = Some(127)

(***************************************************************************)
(* Claims about the search service (checked under SearchSpec)              *)
(***************************************************************************)
\* t occurs in w
OccursIn(t, w) == \E i \in 1..(Len(w) - Len(t) + 1) : \A j \in 1..Len(t) : w[i + j - 1] = t[j]
\* the keywords that are not blank, trimmed and lowercased
UsableKeywords == {Strip(LowerStr(kw)) : kw \in {k \in Range(criteria.keywords) : Strip(k) # <<>>}}
\* the title, the plot and the genres of a record, one after the other with a
\* space between them, lowercased
TextOf(m) ==
    LET spaced(words) == Concat([i \in 1..Len(words) |->
                                    IF i = 1 THEN words[i] ELSE <<" ">> \o words[i]])
    IN LowerStr(spaced(<<OrEmpty(m.title), OrEmpty(m.plot), spaced(m.genres)>>))
\* the record is kept by the filter the claim describes
IsKept(m) == UsableKeywords = {} \/ \E kw \in UsableKeywords : OccursIn(kw, TextOf(m))
\* the records the filter keeps, in their input order
KeptRecords == SelectSeq(criteria.movies, IsKept)
NonDecreasing(ms) == \A i \in 1..(Len(ms) - 1) : ms[i].duration_minutes <= ms[i + 1].duration_minutes
NonIncreasing(ms) == \A i \in 1..(Len(ms) - 1) : ms[i].duration_minutes >= ms[i + 1].duration_minutes

\* C15: search returns the filtered records in non-decreasing duration order
\* for sort "duration", in non-increasing duration order for "-duration", and
\* in their input order for any other sort string, with or without a leading
\* "-"; the result is always a permutation of the filtered records.
C15_SortOrder ==
    results # None =>
        /\ Len(Val(results)) = Len(KeptRecords)
        /\ \A m \in SearchMovies : Count(m, Val(results)) = Count(m, KeptRecords)
        /\ criteria.sort = DurationField => NonDecreasing(Val(results))
        /\ criteria.sort = <<"-">> \o DurationField => NonIncreasing(Val(results))
        /\ criteria.sort \notin {DurationField, <<"-">> \o DurationField}
              => Val(results) = KeptRecords

\* C15 witness: three records, two of them kept by a keyword and of different
\* durations in ascending input order, came back in descending order
C15_Witness ==
    /\ results # None
    /\ criteria.sort = <<"-">> \o DurationField
    /\ Len(criteria.movies) = 3
    /\ Len(Val(results)) = 2
    /\ Val(results) # KeptRecords
    /\ Val(results)[1].duration_minutes > Val(results)[2].duration_minutes

\* C16: with at least one non-blank keyword, search keeps exactly the records
\* for which some keyword, trimmed and lowercased, is a substring of the
\* lowercased concatenation of title, plot and genres; with no keywords, or
\* only blank ones, it keeps every record.
C16_KeywordFilter ==
    results # None =>
        /\ \A m \in SearchMovies :
              Count(m, Val(results)) = IF IsKept(m) THEN Count(m, criteria.movies) ELSE 0
        /\ UsableKeywords = {} => Len(Val(results)) = Len(criteria.movies)

\* C16 witness: a keyword with blanks around it and an upper-case letter, next
\* to a blank keyword, kept one record through its genres and dropped another
C16_Witness ==
    /\ results # None
    /\ criteria.keywords = << <<" ", "B", " ">>, <<" ", "\f">> >>
    /\ \E m \in Range(Val(results)) :
          ~OccursIn(<<"b">>, LowerStr(OrEmpty(m.title) \o OrEmpty(m.plot)))
    /\ \E m \in Range(criteria.movies) : m \notin Range(Val(results))

=============================================================================
